---- MODULE Spec2Model ----
(***************************************************************************)
(* Model of the Applivery distribution action: the orchestrator run() of   *)
(* dist/main.js and the client operations fetchPublications,                *)
(* createPublication, uploadBuild and getBuild it calls, with the date      *)
(* normaliser of src/utils.ts.                                              *)
(*                                                                          *)
(* Text is modelled as a sequence of one-character strings, so that the     *)
(* slug regular expression and the branch-name sanitiser work on the        *)
(* characters as the code does.                                             *)
(***************************************************************************)
EXTENDS Integers, Sequences, FiniteSets, TLC

(***************************************************************************)
(* Bounds of the model.                                                     *)
(***************************************************************************)
\* longest text enumerated exhaustively for the slug gate
MaxShortLen == 4
\* largest totalPages the remote reports during a run / in a search on its own
MaxRunPages == 2
MaxFetchPages == 3
\* largest max-attempts input
MaxMaxAttempts == 3
MaxDateItems == 2
MaxSeqRuns == 3
MaxPagingRequests == 3

(***************************************************************************)
(* Characters and text.                                                     *)
(***************************************************************************)
Lower == {"a","b","c","d","e","f","g","h","i","j","k","l","m",
          "n","o","p","q","r","s","t","u","v","w","x","y","z"}
Upper == {"A","B","C","D","E","F","G","H","I","J","K","L","M",
          "N","O","P","Q","R","S","T","U","V","W","X","Y","Z"}
Digit == {"0","1","2","3","4","5","6","7","8","9"}

\* the character class [a-zA-Z0-9]
IsAlnum(c) == c \in Lower \cup Upper \cup Digit

\* the character class [a-zA-Z0-9-]
IsAlnumOrHyphen(c) == IsAlnum(c) \/ c = "-"

Rep(c, n) == [i \in 1..n |-> c]

RECURSIVE SeqsUpTo(_, _)
SeqsUpTo(S, n) ==
  IF n = 0 THEN {<<>>}
  ELSE LET shorter == SeqsUpTo(S, n - 1)
       IN shorter \cup {Append(s, c) : s \in {t \in shorter : Len(t) = n - 1}, c \in S}

(***************************************************************************)
(* slugNameRegex = /^[a-zA-Z0-9][a-zA-Z0-9-]+[a-zA-Z0-9]$/ as the automaton *)
(* it denotes.  State 0: nothing read; 1: the leading alphanumeric read;    *)
(* 2: at least one middle character read; 3: the closing alphanumeric read. *)
(* The expression is anchored at both ends, so a text matches exactly when  *)
(* state 3 is among the states the automaton can be in after the last       *)
(* character.                                                               *)
(***************************************************************************)
RegexStep(states, c) ==
  {q \in 1..3 :
     \/ q = 1 /\ 0 \in states /\ IsAlnum(c)
     \/ q = 2 /\ (1 \in states \/ 2 \in states) /\ IsAlnumOrHyphen(c)
     \/ q = 3 /\ 2 \in states /\ IsAlnum(c)}

\* the states after reading s[lo..hi] from `states`; the text is read in two
\* halves so that the evaluation stays shallow on long texts (no state is
\* left once the automaton is stuck)
RECURSIVE RegexRun(_, _, _, _)
RegexRun(states, s, lo, hi) ==
  IF lo > hi THEN states
  ELSE IF lo = hi THEN RegexStep(states, s[lo])
  ELSE LET mid == (lo + hi) \div 2
           left == RegexRun(states, s, lo, mid)
       IN IF left = {} THEN {} ELSE RegexRun(left, s, mid + 1, hi)

\* slugName.match(slugNameRegex) is truthy
slugNameRegex(s) == 3 \in RegexRun({0}, s, 1, Len(s))

\* the length ceiling of the slug gate
MaxSlugLen == 128

\* variant: the ceiling excludes a slug of exactly MaxSlugLen characters
SlugAcceptedBelowCeiling(s) == ~(~slugNameRegex(s) \/ Len(s) >= MaxSlugLen)

\* the gate of run(): the slug passes when the guard of the rejection is false
SlugAccepted(s) == ~(~slugNameRegex(s) \/ Len(s) > MaxSlugLen)

(***************************************************************************)
(* slugSafeBranchName: every character outside [a-zA-Z0-9-] becomes a       *)
(* hyphen, then the leading and the trailing run of hyphens are removed.    *)
(***************************************************************************)
ReplaceUnsafe(s) == [i \in 1..Len(s) |-> IF IsAlnumOrHyphen(s[i]) THEN s[i] ELSE "-"]

RECURSIVE TrimLeadingHyphens(_)
TrimLeadingHyphens(s) ==
  IF s # <<>> /\ Head(s) = "-" THEN TrimLeadingHyphens(Tail(s)) ELSE s

RECURSIVE TrimTrailingHyphens(_)
TrimTrailingHyphens(s) ==
  IF s # <<>> /\ s[Len(s)] = "-"
  THEN TrimTrailingHyphens(SubSeq(s, 1, Len(s) - 1))
  ELSE s

slugSafeBranchName(branch) ==
  TrimTrailingHyphens(TrimLeadingHyphens(ReplaceUnsafe(branch)))

(***************************************************************************)
(* JavaScript values of the timestamp fields, and the Date constructor.     *)
(***************************************************************************)
Undefined == [t |-> "undefined"]
Null == [t |-> "null"]
Str(v) == [t |-> "string", v |-> v]
Num(n) == [t |-> "number", n |-> n]
DateAt(day) == [t |-> "date", day |-> day]
InvalidDate == [t |-> "invalidDate"]

\* new Date(text): the texts of the model that are ISO-8601 dates parse to
\* their day, every other text gives the invalid-date value
NewDate(text) ==
  CASE text = "2024-01-01T00:00:00Z" -> DateAt(1)
    [] text = "2024-01-02T00:00:00Z" -> DateAt(2)
    [] text = "2024-01-03T00:00:00Z" -> DateAt(3)
    [] OTHER -> InvalidDate

\* variant: every field holding a non-empty string is converted, listed or not
transformDatesEveryField(obj, dateFields) ==
  [f \in DOMAIN obj \cup dateFields |->
     LET value == IF f \in DOMAIN obj THEN obj[f] ELSE Undefined
     IN IF value.t = "string" /\ value.v # "" THEN NewDate(value.v) ELSE value]

\* transformDates of src/utils.ts: a copy of obj in which every listed field
\* holding a non-empty string holds the parsed date; a listed field the
\* object lacks is read as undefined and assigned back
transformDates(obj, dateFields) ==
  [f \in DOMAIN obj \cup dateFields |->
     IF f \in dateFields
     THEN LET value == IF f \in DOMAIN obj THEN obj[f] ELSE Undefined
          IN IF value.t = "string" /\ value.v # "" THEN NewDate(value.v) ELSE value
     ELSE obj[f]]

transformDatesArray(items, dateFields) ==
  [i \in 1..Len(items) |-> transformDates(items[i], dateFields)]

publicationTransformer(raw) == transformDates(raw, {"updatedAt", "createdAt"})

buildTransformer(raw) == transformDates(raw, {"updatedAt", "createdAt"})

\* obj.field of JavaScript for a text-valued field: "undefined" when absent
Field(obj, f) == IF f \in DOMAIN obj THEN obj[f] ELSE "undefined"

(***************************************************************************)
(* The inputs the model draws from.                                         *)
(***************************************************************************)
BranchDev == <<"d","e","v">>
BranchFeat == <<"f","/","x">>
BranchOdd == <<"/","a","/">>
BranchNames == {BranchDev, BranchFeat, BranchOdd}

SlugApp == <<"a","p","p">>
\* slug-name inputs of a whole run; <<>> is the input left empty
SlugInputs == {<<>>, SlugApp, <<"a","b">>}

\* slug-name inputs of the gate on its own: every text of up to MaxShortLen
\* characters over an alphabet with a letter, a capital, a digit, the hyphen
\* and a character outside the class, the examples of the documentation,
\* and texts around the length ceiling
SlugAlphabet == {"a", "Z", "7", "-", "_"}
LongSlugs ==
  {Rep("a", n) : n \in {MaxSlugLen - 1, MaxSlugLen, MaxSlugLen + 1, MaxSlugLen + 2}}
    \cup {<<"a">> \o Rep("-", MaxSlugLen - 2) \o <<"7">>,
          <<"a">> \o Rep("-", MaxSlugLen - 1) \o <<"7">>,
          <<"-">> \o Rep("a", MaxSlugLen - 1),
          Rep("a", MaxSlugLen - 1) \o <<"_">>,
          <<"m","y","-","a","p","p","-","1">>,
          <<"a","b">>, <<"-","a","b","c">>, <<"a","b","c","-">>, <<"a","b","_","c">>}
SlugUniverse == SeqsUpTo(SlugAlphabet, MaxShortLen) \cup LongSlugs

Passwords == {"", "secret"}
\* what fs finds at build-path
BuildPathKinds == {"missing", "directory", "file"}
SkipInputs == {"true", "false"}
\* max-attempts inputs: every one up to the bound, and the few of a run that
\* is explored for its searches
MaxAttemptsInputs == (0 - 1)..MaxMaxAttempts
FewAttemptsInputs == {0, 1}
WaitTimes == {5}

GitBranch == "gitBranch"
GitTag == "gitTag"

RawPub(id, slug, ftype, fvalue, created, updated) ==
  [id |-> id, slug |-> slug, distributionUrl |-> <<"https://dist/", id>>,
   filter |-> [type |-> ftype, value |-> fvalue],
   createdAt |-> created, updatedAt |-> updated]

PubA == RawPub("A", <<"d","e","v">>, GitBranch, BranchDev,
               Str("2024-01-01T00:00:00Z"), Str("2024-01-03T00:00:00Z"))
PubB == RawPub("B", SlugApp, GitBranch, BranchDev,
               Str("2024-01-02T00:00:00Z"), Null)
PubC == RawPub("C", <<"f","-","x">>, GitBranch, BranchFeat,
               Str("not a date"), Undefined)
PubD == RawPub("D", SlugApp, GitTag, BranchDev,
               Str(""), Str("2024-01-03T00:00:00Z"))
\* the item lists of a page: during a run, in a run explored for its poll
\* loop, and in a search on its own
RunPageItems == {<<>>, <<PubA>>, <<PubB>>, <<PubC>>}
LeanPageItems == {<<>>, <<PubA>>}
FetchPageItems == {<<>>, <<PubA>>, <<PubD, PubA>>, <<PubB, PubA>>, <<PubC, PubD, PubB>>}

(***************************************************************************)
(* State.                                                                   *)
(***************************************************************************)
VARIABLES
  \* inputs of the action
  branchName, slugInput, publicationPassword, buildPathKind,
  \* run(): position, how it ended, the error thrown
  pc, result, error,
  \* what the calling pipeline sees: core.setFailed, core.setOutput, log lines
  failed, outputs, diag,
  \* the network: requests and responses in order, requests awaiting a response
  netLog, inflight,
  \* fetchPublications: its position, arguments and locals; pagesSeen records
  \* the bodies of the pages received by the current call
  fpc, fq, currentPage, totalPages, allItems, pagesSeen,
  \* run(): locals of the reconciliation; createCalls records the payloads
  \* createPublication was called with
  branchPublications, slugPublication, publication, createCalls,
  \* run(): locals of the upload and the poll loop; maxAttemptsInput is the
  \* max-attempts input of the run, which the code reads only when it polls
  uploadedBuild, skipProcessing, attempts, maxAttempts, waitTime, maxAttemptsInput,
  \* transformDatesArray on its own: the objects in memory by reference, the
  \* argument array and field list, the array being built, the position;
  \* tdBefore records the memory as it was when the call began
  heap, tdItems, tdFields, tdResult, tdpc, tdBefore,
  \* runs side by side on one remote: the publications the remote stores, in
  \* the order created, and of each run its position and the locals of its
  \* reconciliation
  remote, runs,
  \* uploadBuild on its own: whether the build file exists, the payload it
  \* is called with, the multi-part body it posts, the position
  formFileExists, formPayload, formData, formpc

inputVars == <<branchName, slugInput, publicationPassword, buildPathKind>>
ctlVars == <<pc, result, error>>
outVars == <<failed, outputs, diag>>
netVars == <<netLog, inflight>>
fetchVars == <<fpc, fq, currentPage, totalPages, allItems, pagesSeen>>
reconVars == <<branchPublications, slugPublication, publication, createCalls>>
pollVars == <<uploadedBuild, skipProcessing, attempts, maxAttempts, waitTime,
             maxAttemptsInput>>
dateVars == <<heap, tdItems, tdFields, tdResult, tdpc, tdBefore>>
runVars == <<inputVars, ctlVars, outVars, netVars, fetchVars, reconVars, pollVars>>
concVars == <<remote, runs>>
formVars == <<formFileExists, formPayload, formData, formpc>>
vars == <<runVars, dateVars, concVars, formVars>>

(***************************************************************************)
(* Values run() derives from its inputs.                                    *)
(***************************************************************************)
\* core.getInput('slug-name') || slugSafeBranchName
slugName == IF slugInput # <<>> THEN slugInput ELSE slugSafeBranchName(branchName)

\* variant: the publication is public whatever the password
securityAlwaysPublic == "public"

security == IF publicationPassword # "" THEN "password" ELSE "public"

publicationPayload ==
  [slug |-> slugName,
   visibility |-> "unlisted",
   security |-> security,
   password |-> publicationPassword,
   filter |-> [type |-> GitBranch, value |-> branchName],
   showDevInfo |-> TRUE,
   showHistory |-> TRUE]

(***************************************************************************)
(* Errors.                                                                  *)
(***************************************************************************)
NoError == [name |-> "none", statusCode |-> 0, message |-> ""]
AppliveryAPIError(message, statusCode, responseBody) ==
  [name |-> "AppliveryAPIError", statusCode |-> statusCode, message |-> message,
   responseBody |-> responseBody]
AppliveryNetworkError(message, originalError) ==
  [name |-> "AppliveryNetworkError", statusCode |-> 0, message |-> message,
   originalError |-> originalError]
AppliveryParseError(message, rawBody) ==
  [name |-> "AppliveryParseError", statusCode |-> 0, message |-> message,
   rawBody |-> rawBody]
PlainError(message) == [name |-> "Error", statusCode |-> 0, message |-> message]
\* the error JavaScript throws when a property of null is read
TypeError(message) == [name |-> "TypeError", statusCode |-> 0, message |-> message]

\* JSON.stringify of a body: its text, which is not the body
JSONStringify(body) == [json |-> body]

NoQuery == [kind |-> "none"]

\* no runs side by side are under way
ConcIdle ==
  /\ remote = <<>>
  /\ runs = <<>>

\* no call of uploadBuild on its own is under way
FormIdle ==
  /\ formFileExists = FALSE
  /\ formPayload = <<>>
  /\ formData = <<>>
  /\ formpc = "idle"

\* no call of transformDatesArray on its own is under way
DateIdle ==
  /\ heap = <<>>
  /\ tdItems = <<>>
  /\ tdFields = {}
  /\ tdResult = <<>>
  /\ tdpc = "idle"
  /\ tdBefore = <<>>

InitWith(slugs) ==
  /\ branchName \in BranchNames
  /\ slugInput \in slugs
  /\ publicationPassword \in Passwords
  /\ buildPathKind \in BuildPathKinds
  /\ pc = "validatePath"
  /\ result = "running"
  /\ error = NoError
  /\ failed = FALSE
  /\ outputs = <<>>
  /\ diag = <<>>
  /\ netLog = <<>>
  /\ inflight = 0
  /\ fpc = "idle"
  /\ fq = NoQuery
  /\ currentPage = 0
  /\ totalPages = 0
  /\ allItems = <<>>
  /\ pagesSeen = <<>>
  /\ branchPublications = <<>>
  /\ slugPublication = <<>>
  /\ publication = <<>>
  /\ createCalls = <<>>
  /\ uploadedBuild = <<>>
  /\ skipProcessing = "unread"
  /\ attempts = 0
  /\ maxAttempts = 0
  /\ waitTime = 0
  /\ maxAttemptsInput = 0
  /\ DateIdle
  /\ ConcIdle
  /\ FormIdle

Init == InitWith(SlugInputs)

(***************************************************************************)
(* Effects on what the pipeline sees.                                       *)
(***************************************************************************)
Line(level, text) == [level |-> level, text |-> text]

\* core.setFailed(message): sets the failing exit code and logs the message
\* as an error
SetFailed(message) ==
  /\ failed' = TRUE
  /\ diag' = Append(diag, Line("error", message))

\* the line the catch block of run() logs for an error
CatchLine(err) ==
  CASE err.name = "AppliveryAPIError" -> Line("error", "Applivery API Error")
    [] err.name = "AppliveryNetworkError" -> Line("error", "Applivery Network Error")
    [] err.name = "AppliveryParseError" -> Line("error", "Applivery Parse Error")
    [] OTHER -> Line("error", "Unexpected error")

\* the catch block of run(): one error line by the class of the error, and
\* run() returns normally; nothing else is signalled
Catch(err, lines) ==
  /\ diag' = lines \o <<CatchLine(err)>>
  /\ error' = err
  /\ pc' = "done"
  /\ result' = "returned"
  /\ UNCHANGED <<failed, outputs>>

(***************************************************************************)
(* run(): the validation gates.                                             *)
(***************************************************************************)
\* fs.statSync(buildPath) throws when nothing is at the path, outside the
\* try block, so run() rejects; a directory fails the isFile() test
ValidateBuildPath ==
  /\ pc = "validatePath"
  /\ \/ /\ buildPathKind = "missing"
        /\ pc' = "done"
        /\ result' = "rejected"
        /\ error' = PlainError("ENOENT: no such file or directory, stat")
        /\ UNCHANGED outVars
     \/ /\ buildPathKind = "directory"
        /\ SetFailed("Build file does not exist")
        /\ pc' = "done"
        /\ result' = "returned"
        /\ UNCHANGED <<error, outputs>>
     \/ /\ buildPathKind = "file"
        /\ pc' = "validateSlug"
        /\ UNCHANGED <<result, error, outVars>>
  /\ UNCHANGED <<inputVars, dateVars, concVars, netVars, fetchVars, reconVars, pollVars, formVars>>

\* variant: the rejection is reported but run() goes on to the searches
ValidateSlugNoReturn ==
  /\ pc = "validateSlug"
  /\ IF SlugAccepted(slugName)
     THEN UNCHANGED outVars
     ELSE SetFailed("Invalid slug-name") /\ UNCHANGED outputs
  /\ pc' = "searchBranch"
  /\ UNCHANGED <<result, error, inputVars, dateVars, concVars, netVars, fetchVars, reconVars, pollVars, formVars>>

ValidateSlug ==
  /\ pc = "validateSlug"
  /\ IF SlugAccepted(slugName)
     THEN /\ pc' = "searchBranch"
          /\ UNCHANGED <<result, outVars>>
     ELSE /\ SetFailed("Invalid slug-name")
          /\ pc' = "done"
          /\ result' = "returned"
          /\ UNCHANGED outputs
  /\ UNCHANGED <<error, inputVars, dateVars, concVars, netVars, fetchVars, reconVars, pollVars, formVars>>

\* the gates on their own, over every slug of SlugUniverse
GateInit == InitWith(SlugUniverse)
GateNext == ValidateBuildPath \/ ValidateSlug
GateSpec == GateInit /\ [][GateNext]_vars

(***************************************************************************)
(* What a request can come back with.  kind "resolved": the transport       *)
(* returned a response; "axiosResponse": it raised an error holding a       *)
(* response; "axiosRequest": an error holding the request only;             *)
(* "axiosOther": an error of the transport holding neither; "thrown": any   *)
(* other thrown value.                                                      *)
(***************************************************************************)
NoBody == [hasData |-> FALSE]
\* the body that is JSON null: reading response.data.data of it throws
NullBody == [hasData |-> FALSE, isNull |-> TRUE]
\* the body of an error response
ErrorBody == [hasData |-> FALSE, message |-> "Internal Server Error"]

Failures ==
  {[kind |-> "axiosResponse", status |-> 500, body |-> ErrorBody],
   [kind |-> "axiosRequest", status |-> 0, body |-> NoBody],
   [kind |-> "axiosOther", status |-> 0, body |-> NoBody],
   [kind |-> "thrown", status |-> 0, body |-> NoBody],
   [kind |-> "resolved", status |-> 204, body |-> NoBody]}

Resolved(bodies) ==
  {[kind |-> "resolved", status |-> st, body |-> b] : st \in {200, 201}, b \in bodies}

\* variant: a transport error without a response is taken for an API failure
RequestErrorAllApi(o) ==
  IF o.kind = "resolved" /\ o.status \in {200, 201}
  THEN NoError
  ELSE AppliveryAPIError("request failed", o.status, JSONStringify(o.body))

\* the error a request raises before the body is looked at: the catch around
\* the transport call, then the switch on response.status
RequestError(o) ==
  CASE o.kind = "axiosResponse" ->
         AppliveryAPIError("the server responded with an error status",
                           o.status, JSONStringify(o.body))
    [] o.kind = "axiosRequest" -> AppliveryNetworkError("Network error", o)
    [] o.kind = "axiosOther" -> AppliveryNetworkError("Error", o)
    [] o.kind = "thrown" -> AppliveryNetworkError("Unexpected error", o)
    [] OTHER -> IF o.status \in {200, 201}
                THEN NoError
                ELSE AppliveryAPIError("status outside 200 and 201",
                                       o.status, JSONStringify(o.body))

\* what the log of the network keeps of a response that raised an error
NoFailure == [kind |-> "none", status |-> 0, body |-> NoBody]
FailureOf(err, o) == IF err = NoError THEN NoFailure ELSE o

(***************************************************************************)
(* fetchPublications.                                                       *)
(***************************************************************************)
PageBodies(itemLists, maxPages) ==
  {[hasData |-> TRUE, itemsIsArray |-> TRUE, items |-> it, totalPages |-> tp] :
     it \in itemLists,
     tp \in {Undefined} \cup {Num(n) : n \in 0..maxPages}}
  \cup {NoBody, NullBody, [hasData |-> TRUE, itemsIsArray |-> FALSE]}

RunFetchOutcomes == Resolved(PageBodies(RunPageItems, MaxRunPages)) \cup Failures
LeanFetchOutcomes == Resolved(PageBodies(LeanPageItems, 1)) \cup Failures
FetchOutcomes == Resolved(PageBodies(FetchPageItems, MaxFetchPages)) \cup Failures

\* queryParams?.filterType && queryParams?.filterValue
HasFilter(q) ==
  /\ "filterType" \in DOMAIN q /\ q.filterType # ""
  /\ "filterValue" \in DOMAIN q /\ q.filterValue # <<>>

\* variant: the filter compares the type alone
PostFilterByType(items, q) ==
  IF HasFilter(q)
  THEN SelectSeq(items, LAMBDA item : item.filter.type = q.filterType)
  ELSE items

\* the client-side filter of one page's transformed items
PostFilter(items, q) ==
  IF HasFilter(q)
  THEN SelectSeq(items, LAMBDA item :
         item.filter.type = q.filterType /\ item.filter.value = q.filterValue)
  ELSE items

\* variant: the total reported is not read
TotalPagesIgnored(tp) == 1

\* response.data.data.totalPages || 1
TotalPagesOr1(tp) == IF tp.t = "number" /\ tp.n # 0 THEN tp.n ELSE 1

\* the error of a page, NoError when the page is accepted
FetchError(o) ==
  LET err == RequestError(o)
  IN IF err # NoError THEN err
     ELSE IF o.body = NullBody
          THEN TypeError("Cannot read properties of null (reading 'data')")
     ELSE IF ~o.body.hasData \/ ~o.body.itemsIsArray
          THEN AppliveryParseError("Invalid response structure: missing data.items array",
                                   JSONStringify(o.body))
          ELSE NoError

\* the outer catch: the three client errors are thrown on as they are, any
\* other error is wrapped in a plain Error
FetchRethrow(err) ==
  IF err.name \in {"AppliveryAPIError", "AppliveryNetworkError", "AppliveryParseError"}
  THEN err
  ELSE PlainError("Unexpected error while fetching publications")

\* variant: the loop stops one page early
MorePagesStrict(page, total) == page < total

\* the loop condition of the do-while
MorePages(page, total) == page <= total

\* entry: the locals before the loop
FetchCall(q) ==
  /\ fpc' = "send"
  /\ fq' = q
  /\ currentPage' = 1
  /\ totalPages' = 1
  /\ allItems' = <<>>
  /\ pagesSeen' = <<>>

\* the locals are gone once the caller has the result or the error
FetchClear ==
  /\ fpc' = "idle"
  /\ fq' = NoQuery
  /\ currentPage' = 0
  /\ totalPages' = 0
  /\ allItems' = <<>>
  /\ pagesSeen' = <<>>

\* axios.get of the current page
FetchSend ==
  /\ fpc = "send"
  /\ fpc' = "wait"
  /\ netLog' = Append(netLog, [ev |-> "request", op |-> "fetchPublications",
                               query |-> fq, page |-> currentPage])
  /\ inflight' = inflight + 1
  /\ UNCHANGED <<fq, currentPage, totalPages, allItems, pagesSeen>>
  /\ UNCHANGED <<inputVars, dateVars, concVars, ctlVars, outVars, reconVars, pollVars, formVars>>

\* the rest of one iteration: classify the response, transform, filter and
\* accumulate its items, read totalPages, advance, test the loop condition
FetchRecv(outcomes) ==
  /\ fpc = "wait"
  /\ \E o \in outcomes :
       LET err == FetchError(o)
       IN /\ netLog' = Append(netLog, [ev |-> "response", op |-> "fetchPublications",
                                       page |-> currentPage, ok |-> (err = NoError),
                                       failure |-> FailureOf(err, o)])
          /\ inflight' = inflight - 1
          /\ IF err # NoError
             THEN /\ fpc' = "threw"
                  /\ error' = FetchRethrow(err)
                  /\ UNCHANGED <<fq, currentPage, totalPages, allItems, pagesSeen>>
             ELSE LET transformedItems ==
                        PostFilter([i \in 1..Len(o.body.items) |->
                                      publicationTransformer(o.body.items[i])], fq)
                      total == TotalPagesOr1(o.body.totalPages)
                  IN /\ allItems' = allItems \o transformedItems
                     /\ totalPages' = total
                     /\ currentPage' = currentPage + 1
                     /\ pagesSeen' = Append(pagesSeen, o.body)
                     /\ fpc' = IF MorePages(currentPage + 1, total) THEN "send" ELSE "returned"
                     /\ UNCHANGED <<fq, error>>
  /\ UNCHANGED <<pc, result, inputVars, dateVars, concVars, outVars, reconVars, pollVars, formVars>>

(***************************************************************************)
(* run(): the two searches.                                                 *)
(***************************************************************************)
\* variant: the search by branch asks for the sanitized name
BranchQuerySanitized ==
  [filterType |-> GitBranch, filterValue |-> slugSafeBranchName(branchName),
   sort |-> "createdAt:asc"]

BranchQuery ==
  [filterType |-> GitBranch, filterValue |-> branchName, sort |-> "createdAt:asc"]
SlugQuery == [slug |-> slugName, sort |-> ""]

\* the fields run() keeps of a fetched publication
LogFriendly(p) ==
  [id |-> p.id, slug |-> p.slug, distributionUrl |-> p.distributionUrl,
   createdAt |-> p.createdAt, updatedAt |-> p.updatedAt]

SearchBranchCall ==
  /\ pc = "searchBranch"
  /\ pc' = "searchBranchWait"
  /\ FetchCall(BranchQuery)
  /\ UNCHANGED <<result, error, inputVars, dateVars, concVars, outVars, netVars, reconVars, pollVars, formVars>>

SearchBranchReturn ==
  /\ pc = "searchBranchWait"
  /\ fpc = "returned"
  /\ branchPublications' = [i \in 1..Len(allItems) |-> LogFriendly(allItems[i])]
  /\ pc' = "searchSlug"
  /\ FetchClear
  /\ UNCHANGED <<slugPublication, publication, createCalls>>
  /\ UNCHANGED <<result, error, inputVars, dateVars, concVars, outVars, netVars, pollVars, formVars>>

SearchSlugCall ==
  /\ pc = "searchSlug"
  /\ pc' = "searchSlugWait"
  /\ FetchCall(SlugQuery)
  /\ UNCHANGED <<result, error, inputVars, dateVars, concVars, outVars, netVars, reconVars, pollVars, formVars>>

SearchSlugReturn ==
  /\ pc = "searchSlugWait"
  /\ fpc = "returned"
  /\ slugPublication' = [i \in 1..Len(allItems) |-> LogFriendly(allItems[i])]
  /\ pc' = "reconcile"
  /\ FetchClear
  /\ UNCHANGED <<branchPublications, publication, createCalls>>
  /\ UNCHANGED <<result, error, inputVars, dateVars, concVars, outVars, netVars, pollVars, formVars>>

\* variant: a search that threw is started again
SearchThrewRetry ==
  /\ pc \in {"searchBranchWait", "searchSlugWait"}
  /\ fpc = "threw"
  /\ FetchCall(fq)
  /\ UNCHANGED <<ctlVars, outVars, inputVars, dateVars, concVars, netVars, reconVars, pollVars, formVars>>

\* a search threw: the catch block of run()
SearchThrew ==
  /\ pc \in {"searchBranchWait", "searchSlugWait"}
  /\ fpc = "threw"
  /\ Catch(error, diag)
  /\ FetchClear
  /\ UNCHANGED <<inputVars, dateVars, concVars, netVars, reconVars, pollVars, formVars>>

(***************************************************************************)
(* run(): reconcile, ensure the publication exists, report it.              *)
(***************************************************************************)
\* variant: the slug match is preferred to the branch match
ChooseSlugFirst(branchPubs, slugPubs) ==
  IF slugPubs # <<>> THEN <<slugPubs[1]>>
  ELSE IF branchPubs # <<>> THEN <<branchPubs[1]>>
  ELSE <<>>

\* variant: the slug match is ignored
ChooseBranchOnly(branchPubs, slugPubs) ==
  IF branchPubs # <<>> THEN <<branchPubs[1]>> ELSE <<>>

\* branchPublications[0] || slugPublication[0], as a list of at most one
ChoosePublication(branchPubs, slugPubs) ==
  IF branchPubs # <<>> THEN <<branchPubs[1]>>
  ELSE IF slugPubs # <<>> THEN <<slugPubs[1]>>
  ELSE <<>>

\* variant: a publication is created whatever was found
NeedsCreateAlways(chosen) == TRUE

\* variant: nothing is ever created
NeedsCreateNever(chosen) == FALSE

\* if (publication) ... else: nothing was chosen
NeedsCreate(chosen) == chosen = <<>>

\* variant: the warning does not compare the identifiers
SlugMismatchAnyPair(branchPubs, slugPubs) == slugPubs # <<>> /\ branchPubs # <<>>

\* the condition of the mismatch warning
SlugMismatch(branchPubs, slugPubs) ==
  slugPubs # <<>> /\ branchPubs # <<>> /\ slugPubs[1].id # branchPubs[1].id

ReconcileWarnings(branchPubs, slugPubs) ==
  (IF SlugMismatch(branchPubs, slugPubs)
   THEN <<Line("warning", "Slug publication found doesn't match up with existing Branch publication found")>>
   ELSE <<>>)
  \o (IF Len(branchPubs) > 1
      THEN <<Line("warning", "Multiple publications found for branch")>>
      ELSE <<>>)

\* variant: the distribution URL is not emitted
SetOutputsNoUrl(p) ==
  <<[name |-> "publication-id", value |-> p.id],
    [name |-> "publication-slug", value |-> p.slug]>>

\* the three core.setOutput calls
SetOutputs(p) ==
  <<[name |-> "publication-id", value |-> p.id],
    [name |-> "publication-slug", value |-> p.slug],
    [name |-> "publication-distribution-url", value |-> p.distributionUrl]>>

\* the warnings, the choice, and either the outputs for the publication found
\* or the call of createPublication with the default payload
Reconcile ==
  /\ pc = "reconcile"
  /\ LET chosen == ChoosePublication(branchPublications, slugPublication)
         lines == diag \o ReconcileWarnings(branchPublications, slugPublication)
     IN IF ~NeedsCreate(chosen)
        THEN /\ diag' = Append(lines, Line("info", "Found existing publication"))
             /\ publication' = chosen
             /\ outputs' = outputs \o SetOutputs(chosen[1])
             /\ pc' = "upload"
             /\ UNCHANGED <<createCalls, netVars>>
        ELSE /\ diag' = Append(lines, Line("info", "No publication found, will create a new publication"))
             /\ createCalls' = Append(createCalls, publicationPayload)
             /\ netLog' = Append(netLog, [ev |-> "request", op |-> "createPublication",
                                          payload |-> publicationPayload])
             /\ inflight' = inflight + 1
             /\ pc' = "createWait"
             /\ UNCHANGED <<publication, outputs>>
  /\ UNCHANGED <<branchPublications, slugPublication>>
  /\ UNCHANGED <<result, error, failed, inputVars, dateVars, concVars, fetchVars, pollVars, formVars>>

\* what the remote can answer to a create: the record made from the payload,
\* or a record of its own choosing, or a body without the data wrapper, or
\* the body null
CreateBodies(payload) ==
  {[hasData |-> TRUE,
    data |-> [id |-> "N", slug |-> payload.slug,
              distributionUrl |-> <<"https://dist/", "N">>,
              filter |-> payload.filter,
              createdAt |-> Str("2024-01-03T00:00:00Z"),
              updatedAt |-> Str("2024-01-03T00:00:00Z")]],
   [hasData |-> TRUE, data |-> PubC],
   NoBody,
   NullBody}

CreateError(o) ==
  LET err == RequestError(o)
  IN IF err # NoError THEN err
     ELSE IF o.body = NullBody
          THEN TypeError("Cannot read properties of null (reading 'data')")
     ELSE IF ~o.body.hasData
          THEN AppliveryParseError("Invalid response structure: missing data object",
                                   JSONStringify(o.body))
          ELSE NoError

\* the response of createPublication, then the outputs
CreateRecv ==
  /\ pc = "createWait"
  /\ \E o \in Resolved(CreateBodies(publicationPayload)) \cup Failures :
       LET err == CreateError(o)
       IN /\ netLog' = Append(netLog, [ev |-> "response", op |-> "createPublication",
                                       ok |-> (err = NoError),
                                       failure |-> FailureOf(err, o),
                                       data |-> IF err = NoError THEN o.body.data ELSE <<>>])
          /\ inflight' = inflight - 1
          /\ IF err # NoError
             THEN /\ Catch(err, diag)
                  /\ UNCHANGED publication
             ELSE LET created == publicationTransformer(o.body.data)
                  IN /\ publication' = <<created>>
                     /\ outputs' = outputs \o SetOutputs(created)
                     /\ pc' = "upload"
                     /\ UNCHANGED <<result, error, failed, diag>>
  /\ UNCHANGED <<branchPublications, slugPublication, createCalls>>
  /\ UNCHANGED <<inputVars, dateVars, concVars, fetchVars, pollVars, formVars>>

(***************************************************************************)
(* run(): upload and poll.                                                  *)
(***************************************************************************)
BuildStatuses == {"processed", "processing"}

BuildBodies ==
  {[hasData |-> TRUE,
    data |-> [id |-> "build-1", status |-> st,
              createdAt |-> Str("2024-01-03T00:00:00Z"), updatedAt |-> Null]] :
     st \in BuildStatuses}
  \cup {NoBody, NullBody}

\* response.data.data of a build response: undefined spreads to no fields
BuildData(o) == IF o.body.hasData THEN o.body.data ELSE <<>>

\* the error of a build response, NoError when a build is returned: the
\* payload is not checked, and reading it of the body null throws
BuildError(o) ==
  LET err == RequestError(o)
  IN IF err # NoError THEN err
     ELSE IF o.body = NullBody
          THEN TypeError("Cannot read properties of null (reading 'data')")
          ELSE NoError

\* variant: the upload request is sent twice
UploadSendTwice ==
  /\ pc = "upload"
  /\ netLog' = netLog \o <<[ev |-> "request", op |-> "uploadBuild", versionName |-> branchName],
                            [ev |-> "request", op |-> "uploadBuild", versionName |-> branchName]>>
  /\ inflight' = inflight + 2
  /\ pc' = "uploadWait"
  /\ UNCHANGED <<result, error, outVars>>
  /\ UNCHANGED <<inputVars, dateVars, concVars, fetchVars, reconVars, pollVars, formVars>>

\* uploadBuild: the file must exist, then the request is sent
UploadSend ==
  /\ pc = "upload"
  /\ IF buildPathKind = "missing"
     THEN /\ Catch(PlainError("Build file does not exist"), diag)
          /\ UNCHANGED netVars
     ELSE /\ netLog' = Append(netLog, [ev |-> "request", op |-> "uploadBuild",
                                       versionName |-> branchName])
          /\ inflight' = inflight + 1
          /\ pc' = "uploadWait"
          /\ UNCHANGED <<result, error, outVars>>
  /\ UNCHANGED <<inputVars, dateVars, concVars, fetchVars, reconVars, pollVars, formVars>>

UploadRecv ==
  /\ pc = "uploadWait"
  /\ \E o \in Resolved(BuildBodies) \cup Failures :
       LET err == BuildError(o)
       IN /\ netLog' = Append(netLog, [ev |-> "response", op |-> "uploadBuild",
                                       ok |-> (err = NoError),
                                       failure |-> FailureOf(err, o),
                                       hasData |-> o.body.hasData,
                                       id |-> Field(BuildData(o), "id"),
                                       status |-> Field(BuildData(o), "status")])
          /\ inflight' = inflight - 1
          /\ IF err # NoError
             THEN /\ Catch(err, diag)
                  /\ UNCHANGED uploadedBuild
             ELSE /\ uploadedBuild' = buildTransformer(BuildData(o))
                  /\ pc' = "pollEnter"
                  /\ UNCHANGED <<result, error, outVars>>
  /\ UNCHANGED <<skipProcessing, attempts, maxAttempts, waitTime, maxAttemptsInput>>
  /\ UNCHANGED <<inputVars, dateVars, concVars, fetchVars, reconVars, formVars>>

\* variant: the poll is never skipped
SkipRequestedNever(skip) == FALSE

\* core.getInput('skip-processing') !== 'true', negated
SkipRequested(skip) == skip = "true"

\* the input skip-processing is read here, and unless it asks to skip, so
\* are max-attempts and wait-time
PollEnter(attemptsInputs) ==
  /\ pc = "pollEnter"
  /\ \E skip \in SkipInputs, m \in attemptsInputs :
       /\ skipProcessing' = skip
       /\ maxAttemptsInput' = m
       /\ IF ~SkipRequested(skip)
          THEN /\ maxAttempts' = m
               /\ \E w \in WaitTimes : waitTime' = w
               /\ attempts' = 0
               /\ pc' = "pollLoop"
          ELSE /\ pc' = "report"
               /\ UNCHANGED <<attempts, maxAttempts, waitTime>>
  /\ UNCHANGED <<uploadedBuild, result, error>>
  /\ UNCHANGED <<inputVars, dateVars, concVars, outVars, netVars, fetchVars, reconVars, formVars>>

\* variant: the loop admits one attempt more
KeepPollingOneMore(status, n, max) == status # "processed" /\ n <= max

\* the condition of the while loop
KeepPolling(status, n, max) == status # "processed" /\ n < max

\* the test after the loop that raises the processing timeout
AttemptsExhausted(status, n, max) == n = max

\* the loop test; on exit, the timeout test
PollLoop ==
  /\ pc = "pollLoop"
  /\ LET status == Field(uploadedBuild, "status")
     IN IF KeepPolling(status, attempts, maxAttempts)
        THEN /\ netLog' = Append(netLog, [ev |-> "sleep", seconds |-> waitTime])
             /\ pc' = "pollSleep"
             /\ UNCHANGED <<result, error, outVars, inflight>>
        ELSE IF AttemptsExhausted(status, attempts, maxAttempts)
        THEN /\ Catch(PlainError("Build did not complete processing"),
                      Append(diag, Line("error", "Build did not complete processing")))
             /\ UNCHANGED netVars
        ELSE /\ pc' = "report"
             /\ UNCHANGED <<result, error, outVars, netVars>>
  /\ UNCHANGED <<inputVars, dateVars, concVars, fetchVars, reconVars, pollVars, formVars>>

\* the wait is over: getBuild is sent
PollWake ==
  /\ pc = "pollSleep"
  /\ netLog' = Append(netLog, [ev |-> "request", op |-> "getBuild",
                               id |-> Field(uploadedBuild, "id")])
  /\ inflight' = inflight + 1
  /\ pc' = "pollWait"
  /\ UNCHANGED <<result, error, inputVars, dateVars, concVars, outVars, fetchVars, reconVars, pollVars, formVars>>

PollRecv ==
  /\ pc = "pollWait"
  /\ \E o \in Resolved(BuildBodies) \cup Failures :
       LET err == BuildError(o)
       IN /\ netLog' = Append(netLog, [ev |-> "response", op |-> "getBuild",
                                       ok |-> (err = NoError),
                                       failure |-> FailureOf(err, o),
                                       hasData |-> o.body.hasData,
                                       id |-> Field(BuildData(o), "id"),
                                       status |-> Field(BuildData(o), "status")])
          /\ inflight' = inflight - 1
          /\ IF err # NoError
             THEN /\ Catch(err, diag)
                  /\ UNCHANGED <<uploadedBuild, attempts>>
             ELSE /\ uploadedBuild' = buildTransformer(BuildData(o))
                  /\ attempts' = attempts + 1
                  /\ pc' = "pollLoop"
                  /\ UNCHANGED <<result, error, outVars>>
  /\ UNCHANGED <<skipProcessing, maxAttempts, waitTime, maxAttemptsInput>>
  /\ UNCHANGED <<inputVars, dateVars, concVars, fetchVars, reconVars, formVars>>

\* the success notice; run() returns
Report ==
  /\ pc = "report"
  /\ diag' = Append(diag, Line("notice", "Build uploaded"))
  /\ pc' = "done"
  /\ result' = "returned"
  /\ UNCHANGED <<error, failed, outputs>>
  /\ UNCHANGED <<inputVars, dateVars, concVars, netVars, fetchVars, reconVars, pollVars, formVars>>

(***************************************************************************)
(* The run.                                                                 *)
(***************************************************************************)
\* the steps of run() that draw nothing from bounded sets
RunSteps ==
  \/ ValidateBuildPath
  \/ ValidateSlug
  \/ SearchBranchCall
  \/ SearchBranchReturn
  \/ SearchSlugCall
  \/ SearchSlugReturn
  \/ SearchThrew
  \/ FetchSend
  \/ Reconcile
  \/ CreateRecv
  \/ UploadSend
  \/ UploadRecv
  \/ PollLoop
  \/ PollWake
  \/ PollRecv
  \/ Report

\* a run against a remote with several publications on several pages
Next ==
  \/ RunSteps
  \/ FetchRecv(RunFetchOutcomes)
  \/ PollEnter(FewAttemptsInputs)

Spec == Init /\ [][Next]_vars

\* a run with every max-attempts input, against a remote with one page
PollNext ==
  \/ RunSteps
  \/ FetchRecv(LeanFetchOutcomes)
  \/ PollEnter(MaxAttemptsInputs)

PollSpec == Init /\ [][PollNext]_vars

(***************************************************************************)
(* fetchPublications on its own, for each shape of query.                   *)
(***************************************************************************)
FetchQueries ==
  {[filterType |-> GitBranch, filterValue |-> BranchDev, sort |-> "createdAt:asc"],
   [slug |-> SlugApp, sort |-> ""],
   [filterType |-> GitBranch, sort |-> ""],
   [filterValue |-> BranchDev, sort |-> ""],
   [filterType |-> GitBranch, filterValue |-> <<>>, sort |-> ""],
   [sort |-> ""]}

FetchInit ==
  /\ branchName = BranchDev
  /\ slugInput = <<>>
  /\ publicationPassword = ""
  /\ buildPathKind = "file"
  /\ pc = "fetchOnly"
  /\ result = "running"
  /\ error = NoError
  /\ failed = FALSE
  /\ outputs = <<>>
  /\ diag = <<>>
  /\ netLog = <<>>
  /\ inflight = 0
  /\ fpc = "send"
  /\ fq \in FetchQueries
  /\ currentPage = 1
  /\ totalPages = 1
  /\ allItems = <<>>
  /\ pagesSeen = <<>>
  /\ branchPublications = <<>>
  /\ slugPublication = <<>>
  /\ publication = <<>>
  /\ createCalls = <<>>
  /\ uploadedBuild = <<>>
  /\ skipProcessing = "unread"
  /\ attempts = 0
  /\ maxAttempts = 0
  /\ waitTime = 0
  /\ maxAttemptsInput = 0
  /\ DateIdle
  /\ ConcIdle
  /\ FormIdle

FetchNext == FetchSend \/ FetchRecv(FetchOutcomes)

FetchSpec == FetchInit /\ [][FetchNext]_vars

(***************************************************************************)
(* fetchPublications against a remote whose reported totalPages may stay    *)
(* ahead of the page asked for.  The code has no limit on the pages it      *)
(* asks for; the model stops sending after MaxPagingRequests requests.      *)
(***************************************************************************)
\* the responses to the request for a page: a total up to two past the page
PagingOutcomes(page) == Resolved(PageBodies(LeanPageItems, page + 2)) \cup Failures

PagingSend ==
  /\ currentPage <= MaxPagingRequests
  /\ FetchSend

PagingNext == PagingSend \/ FetchRecv(PagingOutcomes(currentPage))

PagingSpec == FetchInit /\ [][PagingNext]_vars

(***************************************************************************)
(* transformDatesArray on its own.  Objects live in memory cells and are    *)
(* passed by reference, so that writing to an argument would show.         *)
(***************************************************************************)
TimestampValues ==
  {Str("2024-01-01T00:00:00Z"), Str("not a date"), Str(""), Null, Undefined,
   Num(7), DateAt(2)}

\* the objects given: a text field, createdAt of every kind of value,
\* updatedAt a timestamp text, null or absent
DateRecords ==
  {[name |-> Str("app"), createdAt |-> c, updatedAt |-> u] :
     c \in TimestampValues, u \in {Str("2024-01-03T00:00:00Z"), Null}}
  \cup {[name |-> Str("app"), createdAt |-> c] : c \in TimestampValues}

DateFieldLists == SUBSET {"createdAt", "updatedAt", "name"}

\* h with value v in cell number cell, which may be one past the last
Store(h, cell, v) ==
  [i \in 1..(IF cell > Len(h) THEN cell ELSE Len(h)) |-> IF i = cell THEN v ELSE h[i]]

\* variant: the result is the argument object itself
ResultCellAlias(h, ref) == ref

\* const result = { ...obj }: a new object
ResultCell(h, ref) == Len(h) + 1

DateInit ==
  /\ branchName = BranchDev
  /\ slugInput = <<>>
  /\ publicationPassword = ""
  /\ buildPathKind = "file"
  /\ pc = "datesOnly"
  /\ result = "running"
  /\ error = NoError
  /\ failed = FALSE
  /\ outputs = <<>>
  /\ diag = <<>>
  /\ netLog = <<>>
  /\ inflight = 0
  /\ fpc = "idle"
  /\ fq = NoQuery
  /\ currentPage = 0
  /\ totalPages = 0
  /\ allItems = <<>>
  /\ pagesSeen = <<>>
  /\ branchPublications = <<>>
  /\ slugPublication = <<>>
  /\ publication = <<>>
  /\ createCalls = <<>>
  /\ uploadedBuild = <<>>
  /\ skipProcessing = "unread"
  /\ attempts = 0
  /\ maxAttempts = 0
  /\ waitTime = 0
  /\ maxAttemptsInput = 0
  /\ heap \in [1..2 -> DateRecords]
  /\ tdItems \in SeqsUpTo(1..2, MaxDateItems)
  /\ tdFields \in DateFieldLists
  /\ tdResult = <<>>
  /\ tdpc = "map"
  /\ tdBefore = heap
  /\ ConcIdle
  /\ FormIdle

\* items.map: transformDates of the next element, its result appended
TransformItem ==
  /\ tdpc = "map"
  /\ Len(tdResult) < Len(tdItems)
  /\ LET ref == tdItems[Len(tdResult) + 1]
         cell == ResultCell(heap, ref)
     IN /\ heap' = Store(heap, cell, transformDates(heap[ref], tdFields))
        /\ tdResult' = Append(tdResult, cell)
  /\ UNCHANGED <<tdItems, tdFields, tdpc, tdBefore, runVars, concVars, formVars>>

\* every element is mapped: the new array is returned
TransformReturn ==
  /\ tdpc = "map"
  /\ Len(tdResult) = Len(tdItems)
  /\ tdpc' = "returned"
  /\ UNCHANGED <<heap, tdItems, tdFields, tdResult, tdBefore, runVars, concVars, formVars>>

DateNext == TransformItem \/ TransformReturn

DateSpec == DateInit /\ [][DateNext]_vars

(***************************************************************************)
(* Two runs of the action side by side, for the same branch and with the    *)
(* same inputs, from the searches to the publication each ends with.  The   *)
(* remote is the one thing they share: it stores what create sends and      *)
(* answers a search from what it stores at the moment it answers.  A run    *)
(* receives the response later, and the other run may act in between.       *)
(***************************************************************************)
RunIds == {"run1", "run2"}

NewIds == <<"N1", "N2", "N3", "N4", "N5">>

\* the remote's answer to a search: for a slug, the publications with that
\* slug; for a filter, those of the filter type, whose match on the value is
\* not exact
RemoteSearch(store, q) ==
  IF "slug" \in DOMAIN q
  THEN SelectSeq(store, LAMBDA p : p.slug = q.slug)
  ELSE SelectSeq(store, LAMBDA p : p.filter.type = q.filterType)

\* the record the remote stores for a create
RemoteCreate(store, payload) ==
  [id |-> NewIds[Len(store) + 1], slug |-> payload.slug,
   distributionUrl |-> <<"https://dist/", NewIds[Len(store) + 1]>>,
   filter |-> payload.filter,
   createdAt |-> Str("2024-01-03T00:00:00Z"),
   updatedAt |-> Str("2024-01-03T00:00:00Z")]

\* the remote's response to a search: what it stores now, on one page
RemotePage(store, q) ==
  [kind |-> "resolved", status |-> 200,
   body |-> [hasData |-> TRUE, itemsIsArray |-> TRUE,
             items |-> RemoteSearch(store, q), totalPages |-> Num(1)]]

\* what run() holds of a search whose one page carried the items given
SearchResult(page, q) ==
  LET items == PostFilter([i \in 1..Len(page) |-> publicationTransformer(page[i])], q)
  IN [i \in 1..Len(items) |-> LogFriendly(items[i])]

\* no response is under way to the run
NoAnswer == [kind |-> "none", status |-> 0, body |-> NoBody]

\* a run at its first search; answer is the response to its request, from
\* the moment the remote has answered to the moment the run receives it
FreshRun ==
  [pc |-> "searchBranch", branchPublications |-> <<>>,
   slugPublication |-> <<>>, publication |-> <<>>,
   createCalls |-> <<>>, error |-> NoError, answer |-> NoAnswer]

\* the inputs and the remote before any of the runs has searched
RemoteInit ==
  /\ branchName \in BranchNames
  /\ slugInput \in SlugInputs
  /\ SlugAccepted(slugName)
  /\ publicationPassword = ""
  /\ buildPathKind = "file"
  /\ pc = "sideBySide"
  /\ result = "running"
  /\ error = NoError
  /\ failed = FALSE
  /\ outputs = <<>>
  /\ diag = <<>>
  /\ netLog = <<>>
  /\ inflight = 0
  /\ fpc = "idle"
  /\ fq = NoQuery
  /\ currentPage = 0
  /\ totalPages = 0
  /\ allItems = <<>>
  /\ pagesSeen = <<>>
  /\ branchPublications = <<>>
  /\ slugPublication = <<>>
  /\ publication = <<>>
  /\ createCalls = <<>>
  /\ uploadedBuild = <<>>
  /\ skipProcessing = "unread"
  /\ attempts = 0
  /\ maxAttempts = 0
  /\ waitTime = 0
  /\ maxAttemptsInput = 0
  /\ DateIdle
  /\ FormIdle
  /\ remote \in {<<>>, <<PubC>>, <<PubD>>}

ConcInit ==
  /\ RemoteInit
  /\ runs = [r \in RunIds |-> FreshRun]

\* run r sends its search by branch
ConcSearchBranchCall(r) ==
  /\ runs[r].pc = "searchBranch"
  /\ runs' = [runs EXCEPT ![r].pc = "searchBranchWait"]
  /\ UNCHANGED <<remote, runVars, dateVars, formVars>>

\* run r sends its search by slug
ConcSearchSlugCall(r) ==
  /\ runs[r].pc = "searchSlug"
  /\ runs' = [runs EXCEPT ![r].pc = "searchSlugWait"]
  /\ UNCHANGED <<remote, runVars, dateVars, formVars>>

\* the request of run r is answered: a search from what the remote stores
\* now, a create by storing the publication; or the request fails.  The
\* response is under way to the run from here on
ConcAnswer(r) ==
  /\ runs[r].pc \in {"searchBranchWait", "searchSlugWait", "createWait"}
  /\ runs[r].answer = NoAnswer
  /\ \/ /\ runs[r].pc = "searchBranchWait"
        /\ runs' = [runs EXCEPT ![r].answer = RemotePage(remote, BranchQuery)]
        /\ UNCHANGED remote
     \/ /\ runs[r].pc = "searchSlugWait"
        /\ runs' = [runs EXCEPT ![r].answer = RemotePage(remote, SlugQuery)]
        /\ UNCHANGED remote
     \/ /\ runs[r].pc = "createWait"
        /\ LET stored == RemoteCreate(remote, runs[r].createCalls[1])
           IN /\ remote' = Append(remote, stored)
              /\ runs' = [runs EXCEPT ![r].answer =
                            [kind |-> "resolved", status |-> 201,
                             body |-> [hasData |-> TRUE, data |-> stored]]]
     \/ \E o \in Failures :
          /\ runs' = [runs EXCEPT ![r].answer = o]
          /\ UNCHANGED remote
  /\ UNCHANGED <<runVars, dateVars, formVars>>

\* run r receives the response to its search by branch: the list it keeps,
\* or the error that ends it in the catch block
ConcSearchBranchReturn(r) ==
  /\ runs[r].pc = "searchBranchWait"
  /\ runs[r].answer # NoAnswer
  /\ LET o == runs[r].answer
         err == FetchError(o)
     IN IF err # NoError
        THEN runs' = [runs EXCEPT ![r].error = FetchRethrow(err), ![r].pc = "done",
                                  ![r].answer = NoAnswer]
        ELSE runs' = [runs EXCEPT ![r].branchPublications =
                                    SearchResult(o.body.items, BranchQuery),
                                  ![r].pc = "searchSlug",
                                  ![r].answer = NoAnswer]
  /\ UNCHANGED <<remote, runVars, dateVars, formVars>>

\* run r receives the response to its search by slug
ConcSearchSlugReturn(r) ==
  /\ runs[r].pc = "searchSlugWait"
  /\ runs[r].answer # NoAnswer
  /\ LET o == runs[r].answer
         err == FetchError(o)
     IN IF err # NoError
        THEN runs' = [runs EXCEPT ![r].error = FetchRethrow(err), ![r].pc = "done",
                                  ![r].answer = NoAnswer]
        ELSE runs' = [runs EXCEPT ![r].slugPublication =
                                    SearchResult(o.body.items, SlugQuery),
                                  ![r].pc = "reconcile",
                                  ![r].answer = NoAnswer]
  /\ UNCHANGED <<remote, runVars, dateVars, formVars>>

\* the choice of run r, and the call of createPublication when nothing was
\* chosen
ConcReconcile(r) ==
  /\ runs[r].pc = "reconcile"
  /\ LET chosen == ChoosePublication(runs[r].branchPublications, runs[r].slugPublication)
     IN IF ~NeedsCreate(chosen)
        THEN runs' = [runs EXCEPT ![r].publication = chosen, ![r].pc = "resolved"]
        ELSE runs' = [runs EXCEPT ![r].createCalls = Append(@, publicationPayload),
                                  ![r].pc = "createWait"]
  /\ UNCHANGED <<remote, runVars, dateVars, formVars>>

\* run r receives the response to its create: the publication it holds from
\* here on, or the error that ends it
ConcCreateRecv(r) ==
  /\ runs[r].pc = "createWait"
  /\ runs[r].answer # NoAnswer
  /\ LET o == runs[r].answer
         err == CreateError(o)
     IN IF err # NoError
        THEN runs' = [runs EXCEPT ![r].error = err, ![r].pc = "done",
                                  ![r].answer = NoAnswer]
        ELSE runs' = [runs EXCEPT ![r].publication = <<publicationTransformer(o.body.data)>>,
                                  ![r].pc = "resolved",
                                  ![r].answer = NoAnswer]
  /\ UNCHANGED <<remote, runVars, dateVars, formVars>>

ConcNext ==
  \E r \in RunIds :
    \/ ConcSearchBranchCall(r)
    \/ ConcSearchSlugCall(r)
    \/ ConcAnswer(r)
    \/ ConcSearchBranchReturn(r)
    \/ ConcSearchSlugReturn(r)
    \/ ConcReconcile(r)
    \/ ConcCreateRecv(r)

ConcSpec == ConcInit /\ [][ConcNext]_vars

(***************************************************************************)
(* Runs one after another on the same remote: the next run starts when the  *)
(* one before has ended.  runs is the list of the runs so far, the last of  *)
(* which is the one under way.                                              *)
(***************************************************************************)
SeqInit ==
  /\ RemoteInit
  /\ runs = <<FreshRun>>

\* the run under way has ended; the action is invoked again
SeqStart ==
  /\ runs[Len(runs)].pc \in {"resolved", "done"}
  /\ Len(runs) < MaxSeqRuns
  /\ runs' = Append(runs, FreshRun)
  /\ UNCHANGED <<remote, runVars, dateVars, formVars>>

SeqNext ==
  \/ SeqStart
  \/ ConcSearchBranchCall(Len(runs))
  \/ ConcSearchSlugCall(Len(runs))
  \/ ConcAnswer(Len(runs))
  \/ ConcSearchBranchReturn(Len(runs))
  \/ ConcSearchSlugReturn(Len(runs))
  \/ ConcReconcile(Len(runs))
  \/ ConcCreateRecv(Len(runs))

SeqSpec == SeqInit /\ [][SeqNext]_vars

(***************************************************************************)
(* uploadBuild on its own: the multi-part body it builds from its payload.  *)
(* A payload is a record whose optional fields may be absent; a text is a   *)
(* sequence of characters and a tags list a sequence of texts.              *)
(***************************************************************************)
BuildFilePath == <<"a",".","i","p","a">>
PlatformIOS == <<"i","o","s">>

\* the values an optional field of each type has when it is present: the
\* empty one and the others
TextValues == {<<>>, <<"n">>}
FlagValues == {FALSE, TRUE}
TagLists == {<<>>, <<<<"c","i">>, <<"b">>>>}

\* the sub-fields of deployer.info, in the order uploadBuild reads them
InfoFields ==
  <<"commitMessage", "commit", "branch", "tag", "triggerTimestamp",
    "buildUrl", "ciUrl", "repositoryUrl", "buildNumber">>
InfoFieldSet == {InfoFields[i] : i \in 1..Len(InfoFields)}

\* the object with the fields of a and those of b
Merge(a, b) ==
  [k \in (DOMAIN a) \cup (DOMAIN b) |-> IF k \in DOMAIN a THEN a[k] ELSE b[k]]

\* the objects with no field, or with the field name only, of a value in Values
Optional(name, Values) == {<<>>} \cup {[k \in {name} |-> v] : v \in Values}

\* deployer.info objects: no sub-field, every sub-field with the same value,
\* or one sub-field only
Infos ==
  {<<>>}
    \cup {[k \in InfoFieldSet |-> v] : v \in TextValues}
    \cup {[k \in {f} |-> v] : f \in InfoFieldSet, v \in TextValues}

Deployers ==
  {Merge(n, i) : n \in Optional("name", TextValues), i \in Optional("info", Infos)}

UploadPayloads ==
  {Merge([versionName |-> BranchDev, buildPlatform |-> PlatformIOS],
     Merge(t, Merge(c, Merge(nc, Merge(ne, Merge(nm, Merge(nl, d))))))) :
     t \in Optional("tags", TagLists),
     c \in Optional("changelog", TextValues),
     nc \in Optional("notifyCollaborators", FlagValues),
     ne \in Optional("notifyEmployees", FlagValues),
     nm \in Optional("notifyMessage", TextValues),
     nl \in Optional("notifyLanguage", TextValues),
     d \in Optional("deployer", Deployers)}

\* payload.tags.join(',')
RECURSIVE JoinComma(_)
JoinComma(tags) ==
  IF tags = <<>> THEN <<>>
  ELSE IF Len(tags) = 1 THEN tags[1]
  ELSE tags[1] \o <<",">> \o JoinComma(Tail(tags))

\* value.toString() of a boolean
BooleanToString(b) ==
  IF b THEN <<"t","r","u","e">> ELSE <<"f","a","l","s","e">>

\* if (obj.f): the field is there and its text is not empty
TruthyText(obj, f) == f \in DOMAIN obj /\ obj[f] # <<>>
\* if (obj.f): the field is there and is true
TruthyFlag(obj, f) == f \in DOMAIN obj /\ obj[f] = TRUE
\* if (obj.f): the field is there; an object is truthy, an empty one too
TruthyObject(obj, f) == f \in DOMAIN obj

\* the parts of deployer.info, from sub-field number i on
RECURSIVE InfoParts(_, _, _)
InfoParts(form, info, i) ==
  IF i > Len(InfoFields) THEN form
  ELSE InfoParts(
         IF TruthyText(info, InfoFields[i])
         THEN Append(form, [name |-> <<"deployer", "info", InfoFields[i]>>,
                            value |-> info[InfoFields[i]]])
         ELSE form,
         info, i + 1)

DeployerParts(form, payload) ==
  IF ~TruthyObject(payload, "deployer") THEN form
  ELSE LET deployer == payload.deployer
           named == IF TruthyText(deployer, "name")
                    THEN Append(form, [name |-> <<"deployer", "name">>,
                                       value |-> deployer.name])
                    ELSE form
       IN IF TruthyObject(deployer, "info")
          THEN InfoParts(named, deployer.info, 1)
          ELSE named

\* the multi-part body of uploadBuild: the parts appended, in order; the
\* name of a part is the path of the field it carries
FormData(buildPath, payload) ==
  LET required ==
        <<[name |-> <<"build">>, value |-> buildPath],
          [name |-> <<"versionName">>, value |-> payload.versionName],
          [name |-> <<"buildPlatform">>, value |-> payload.buildPlatform]>>
      f1 == IF "tags" \in DOMAIN payload /\ Len(payload.tags) > 0
            THEN Append(required, [name |-> <<"tags">>,
                                   value |-> JoinComma(payload.tags)])
            ELSE required
      f2 == IF TruthyText(payload, "changelog")
            THEN Append(f1, [name |-> <<"changelog">>, value |-> payload.changelog])
            ELSE f1
      f3 == IF TruthyFlag(payload, "notifyCollaborators")
            THEN Append(f2, [name |-> <<"notifyCollaborators">>,
                             value |-> BooleanToString(payload.notifyCollaborators)])
            ELSE f2
      f4 == IF TruthyFlag(payload, "notifyEmployees")
            THEN Append(f3, [name |-> <<"notifyEmployees">>,
                             value |-> BooleanToString(payload.notifyEmployees)])
            ELSE f3
      f5 == IF TruthyText(payload, "notifyMessage")
            THEN Append(f4, [name |-> <<"notifyMessage">>,
                             value |-> payload.notifyMessage])
            ELSE f4
      f6 == IF TruthyText(payload, "notifyLanguage")
            THEN Append(f5, [name |-> <<"notifyLanguage">>,
                             value |-> payload.notifyLanguage])
            ELSE f5
  IN DeployerParts(f6, payload)

\* a call of uploadBuild, with the build file there or not
FormInit ==
  /\ branchName = BranchDev
  /\ slugInput = <<>>
  /\ publicationPassword = ""
  /\ buildPathKind = "file"
  /\ pc = "uploadOnly"
  /\ result = "running"
  /\ error = NoError
  /\ failed = FALSE
  /\ outputs = <<>>
  /\ diag = <<>>
  /\ netLog = <<>>
  /\ inflight = 0
  /\ fpc = "idle"
  /\ fq = NoQuery
  /\ currentPage = 0
  /\ totalPages = 0
  /\ allItems = <<>>
  /\ pagesSeen = <<>>
  /\ branchPublications = <<>>
  /\ slugPublication = <<>>
  /\ publication = <<>>
  /\ createCalls = <<>>
  /\ uploadedBuild = <<>>
  /\ skipProcessing = "unread"
  /\ attempts = 0
  /\ maxAttempts = 0
  /\ waitTime = 0
  /\ maxAttemptsInput = 0
  /\ DateIdle
  /\ ConcIdle
  /\ formFileExists \in BOOLEAN
  /\ formPayload \in UploadPayloads
  /\ formData = <<>>
  /\ formpc = "called"

\* the build file does not exist: uploadBuild throws before it builds a body
UploadNoFile ==
  /\ formpc = "called"
  /\ ~formFileExists
  /\ formpc' = "threw"
  /\ UNCHANGED <<formFileExists, formPayload, formData, runVars, dateVars, concVars>>

\* the body is built and posted
UploadPost ==
  /\ formpc = "called"
  /\ formFileExists
  /\ formData' = FormData(BuildFilePath, formPayload)
  /\ formpc' = "posted"
  /\ UNCHANGED <<formFileExists, formPayload, runVars, dateVars, concVars>>

FormNext == UploadNoFile \/ UploadPost

FormSpec == FormInit /\ [][FormNext]_vars

(***************************************************************************)
(* Properties.                                                              *)
(***************************************************************************)
\* what the log of the network shows
Events(ev, op) == SelectSeq(netLog, LAMBDA e : e.ev = ev /\ "op" \in DOMAIN e /\ e.op = op)
Requests(op) == Events("request", op)
Responses(op) == Events("response", op)
NetworkRequests == SelectSeq(netLog, LAMBDA e : e.ev = "request")

\* the value last emitted under an output name
Emitted(name) == \E i \in 1..Len(outputs) : outputs[i].name = name
OutputValue(name) ==
  outputs[CHOOSE i \in 1..Len(outputs) :
            /\ outputs[i].name = name
            /\ \A j \in (i + 1)..Len(outputs) : outputs[j].name # name].value
OutputNames == {"publication-id", "publication-slug", "publication-distribution-url"}
AllEmitted == \A n \in OutputNames : Emitted(n)
NoneEmitted == outputs = <<>>

\* the reconciliation has been done: its info line is logged
Reconciled == \E i \in 1..Len(diag) : diag[i].level = "info"

\* the record the remote returned from the create request
CreatedRecord ==
  LET rs == Responses("createPublication") IN rs[Len(rs)].data

TimeoutRaised ==
  /\ result = "returned"
  /\ error = PlainError("Build did not complete processing")

SuccessReported == \E i \in 1..Len(diag) : diag[i].level = "notice"

\* C1: the outputs report the first branch match when there is one, else the
\* first slug match when there is one, else the publication create returned;
\* of a branch list with several entries only the first is used.
C1_ChosenPublication ==
  ~NoneEmitted =>
    LET used == IF branchPublications # <<>> THEN branchPublications[1]
                ELSE IF slugPublication # <<>> THEN slugPublication[1]
                ELSE CreatedRecord
    IN /\ AllEmitted
       /\ OutputValue("publication-id") = used.id
       /\ OutputValue("publication-slug") = used.slug
       /\ OutputValue("publication-distribution-url") = used.distributionUrl
       /\ Len(publication) = 1
       /\ publication[1].id = used.id

C1_Witness ==
  /\ Len(branchPublications) > 1
  /\ slugPublication # <<>>
  /\ slugPublication[1].id # branchPublications[1].id
  /\ branchPublications[2].id # branchPublications[1].id
  /\ AllEmitted
  /\ pc = "done"

\* C2: createPublication is called once when both search results are empty,
\* with the filter {gitBranch, branchName}, and never when either is non-empty.
C2_CreateOnce ==
  /\ Len(createCalls) =
       (IF Reconciled /\ branchPublications = <<>> /\ slugPublication = <<>> THEN 1 ELSE 0)
  /\ Len(Requests("createPublication")) = Len(createCalls)
  /\ \A i \in 1..Len(createCalls) :
       /\ createCalls[i].filter = [type |-> "gitBranch", value |-> branchName]
       /\ Requests("createPublication")[i].payload = createCalls[i]

C2_Witness ==
  /\ Len(createCalls) = 1
  /\ branchName = BranchFeat
  /\ slugName # branchName
  /\ pc = "done"
  /\ AllEmitted

\* the statuses the poll loop has seen, and whether every lookup succeeded
LookupResponses == Responses("getBuild")
UploadResponses == Responses("uploadBuild")
UploadSucceeded == UploadResponses # <<>> /\ UploadResponses[1].ok
AllLookupsOk == \A i \in 1..Len(LookupResponses) : LookupResponses[i].ok
FirstProcessedAt(k) ==
  /\ UploadSucceeded
  /\ UploadResponses[1].status # "processed"
  /\ k <= Len(LookupResponses)
  /\ LookupResponses[k].ok
  /\ LookupResponses[k].status = "processed"
  /\ \A j \in 1..(k - 1) : LookupResponses[j].ok /\ LookupResponses[j].status # "processed"
NeverProcessed ==
  /\ UploadSucceeded
  /\ UploadResponses[1].status # "processed"
  /\ \A i \in 1..Len(LookupResponses) :
       LookupResponses[i].ok /\ LookupResponses[i].status # "processed"

\* C3: without skip-processing, when the status first becomes processed on
\* lookup k, 1 <= k <= maxAttempts, the run makes exactly k lookups and raises
\* no processing timeout.
C3_ProcessedOnKth ==
  (pc = "done" /\ skipProcessing = "false" /\ maxAttempts >= 1) =>
    \A k \in 1..maxAttempts :
      FirstProcessedAt(k) =>
        /\ Len(Requests("getBuild")) = k
        /\ ~TimeoutRaised

\* C4: without skip-processing and with maxAttempts N >= 0, a build that never
\* becomes processed is looked up exactly N times and then the processing
\* timeout is raised; never more than N lookups are made on the way.
C4_TimeoutAfterN ==
  (skipProcessing = "false" /\ maxAttempts >= 0 /\ NeverProcessed) =>
    /\ Len(Requests("getBuild")) <= maxAttempts
    /\ TimeoutRaised => Len(LookupResponses) = maxAttempts
    /\ pc = "done" => (TimeoutRaised /\ Len(LookupResponses) = maxAttempts
                       /\ ~SuccessReported)

C4_Witness ==
  /\ pc = "done"
  /\ skipProcessing = "false"
  /\ maxAttempts >= 2
  /\ NeverProcessed
  /\ Len(LookupResponses) = maxAttempts
  /\ TimeoutRaised

\* a failure escalated inside run(): the catch block took an error
Escalated == pc = "done" /\ result = "returned" /\ error # NoError

\* C5: whenever a failure escalates inside run(), the failure signal is set
\* and success is not reported.
C5_EscalatedFails == Escalated => (failed /\ ~SuccessReported)

\* the last response is a failed one of the given operations
LastResponseFailed(ops) ==
  /\ netLog # <<>>
  /\ netLog[Len(netLog)].ev = "response"
  /\ netLog[Len(netLog)].op \in ops
  /\ ~netLog[Len(netLog)].ok

C6_State ==
  /\ Requests("uploadBuild") # <<>> => AllEmitted
  /\ publication # <<>> =>
       /\ AllEmitted
       /\ Len(outputs) = 3
       /\ OutputValue("publication-id") = publication[1].id
       /\ OutputValue("publication-slug") = publication[1].slug
       /\ OutputValue("publication-distribution-url") = publication[1].distributionUrl
  /\ (pc \notin {"validatePath", "validateSlug"} /\ NetworkRequests = <<>>) => NoneEmitted
  /\ LastResponseFailed({"fetchPublications", "createPublication"}) => NoneEmitted
  /\ (pc = "done" /\ publication = <<>>) => NoneEmitted

\* C6: the three outputs are emitted once the publication is resolved and
\* before the upload request, they stay as emitted whatever follows, and they
\* are not emitted in a run where validation, a search or create fails.
C6_OutputsBeforeUpload ==
  [](C6_State) /\ [][~NoneEmitted => outputs' = outputs]_vars

C6_Witness ==
  /\ pc = "done"
  /\ AllEmitted
  /\ LastResponseFailed({"uploadBuild"})

\* the shape the slug gate is meant to accept
SlugShape(s) ==
  /\ Len(s) >= 3
  /\ Len(s) <= 128
  /\ IsAlnum(s[1])
  /\ IsAlnum(s[Len(s)])
  /\ \A i \in 2..(Len(s) - 1) : IsAlnum(s[i]) \/ s[i] = "-"

GateDecided == buildPathKind = "file" /\ pc \notin {"validatePath", "validateSlug"}

\* C7: the slug gate accepts a slug exactly when it has 3 to 128 characters,
\* begins and ends with an alphanumeric and has only alphanumerics and
\* hyphens in between; every other text is rejected.
C7_SlugGate ==
  GateDecided =>
    /\ (pc = "searchBranch") <=> SlugShape(slugName)
    /\ (pc = "done" /\ failed) <=> ~SlugShape(slugName)

C7_Witness ==
  /\ pc = "searchBranch"
  /\ Len(slugName) = 128
  /\ slugName[2] = "-"

\* C8: a slug the gate rejects sets the failure signal and the run ends with
\* no network request issued and no output emitted.
C8_RejectedSlug ==
  (buildPathKind = "file" /\ ~SlugShape(slugName)) =>
    /\ netLog = <<>>
    /\ inflight = 0
    /\ NoneEmitted
    /\ pc \in {"validatePath", "validateSlug", "done"}
    /\ pc = "done" => (failed /\ result = "returned")

C8_Witness ==
  /\ pc = "done"
  /\ failed
  /\ buildPathKind = "file"
  /\ slugInput = <<>>
  /\ ~SlugShape(slugName)

\* C9: a build path that is missing or not a regular file is reported through
\* the failure signal, before any network request and with no output.
C9_BadBuildPath ==
  (pc = "done" /\ buildPathKind # "file") =>
    /\ failed
    /\ netLog = <<>>
    /\ NoneEmitted

\* the items of the pages received, in page order
RECURSIVE ConcatItems(_)
ConcatItems(pages) ==
  IF pages = <<>> THEN <<>>
  ELSE ConcatItems(SubSeq(pages, 1, Len(pages) - 1)) \o pages[Len(pages)].items

\* the items a search for query q is to return of the raw items given
TypeSupplied(q) == "filterType" \in DOMAIN q /\ q.filterType # ""
ValueSupplied(q) == "filterValue" \in DOMAIN q /\ q.filterValue # <<>>
Survives(item, q) ==
  (TypeSupplied(q) /\ ValueSupplied(q)) =>
    (item.filter.type = q.filterType /\ item.filter.value = q.filterValue)
ExpectedResult(pages, q) ==
  LET raw == SelectSeq(ConcatItems(pages), LAMBDA item : Survives(item, q))
  IN [i \in 1..Len(raw) |-> publicationTransformer(raw[i])]

ConstantTotal(P) ==
  /\ pagesSeen # <<>>
  /\ \A i \in 1..Len(pagesSeen) : pagesSeen[i].totalPages = Num(P)

\* C10: with a constant totalPages P >= 1 and every page succeeding, the
\* search requests pages 1..P in order, each after the response to the one
\* before, and returns the pages' items concatenated in page order.
C10_Pagination ==
  /\ inflight <= 1
  /\ \A i \in 1..Len(netLog) :
       /\ netLog[i].ev = (IF i % 2 = 1 THEN "request" ELSE "response")
       /\ netLog[i].page = (i + 1) \div 2
  /\ \A P \in 1..MaxFetchPages :
       ConstantTotal(P) =>
         /\ Len(pagesSeen) <= P
         /\ fpc = "returned" <=> Len(pagesSeen) = P
         /\ fpc = "returned" =>
              /\ Len(Requests("fetchPublications")) = P
              /\ allItems = ExpectedResult(pagesSeen, fq)

C10_Witness ==
  /\ fpc = "returned"
  /\ ConstantTotal(3)
  /\ ~HasFilter(fq)
  /\ Len(allItems) >= 6
  /\ pagesSeen[1].items # pagesSeen[2].items

\* C11: a search given both a filter type and a filter value (an empty text
\* is a value not given) holds exactly the items served whose filter.type and
\* filter.value equal the ones asked for, in the order served; a search given
\* only one of the two, or neither, holds every item served.
C11_PostFilter ==
  LET served == ConcatItems(pagesSeen)
      both == TypeSupplied(fq) /\ ValueSupplied(fq)
      kept == IF both
              THEN SelectSeq(served, LAMBDA item :
                     /\ item.filter.type = fq.filterType
                     /\ item.filter.value = fq.filterValue)
              ELSE served
  IN /\ Len(allItems) = Len(kept)
     /\ \A i \in 1..Len(kept) :
          /\ allItems[i].id = kept[i].id
          /\ allItems[i].slug = kept[i].slug
          /\ allItems[i].filter = kept[i].filter
          /\ allItems[i].distributionUrl = kept[i].distributionUrl

C11_Witness ==
  /\ fpc = "returned"
  /\ TypeSupplied(fq) /\ ValueSupplied(fq)
  /\ Len(pagesSeen) = 2
  /\ pagesSeen[1].items = <<PubC, PubD, PubB>>
  /\ pagesSeen[2].items = <<PubB, PubA>>
  /\ Len(allItems) = 3
  /\ allItems[1].id = "B" /\ allItems[2].id = "B" /\ allItems[3].id = "A"

\* a response whose status is outside 200 and 201, and one with an accepted
\* status whose body has no data.items array
StatusRejected(f) ==
  f.kind \in {"resolved", "axiosResponse"} /\ f.status \notin {200, 201}
PageMalformed(f) ==
  /\ f.kind = "resolved"
  /\ f.status \in {200, 201}
  /\ (~f.body.hasData \/ ~f.body.itemsIsArray)

\* C12: a page, the first or a later one, with a status outside 200/201 or
\* with a body lacking the data.items array makes the search raise the API
\* failure (with that status) or the parse failure; no request follows it and
\* the caller receives no item, whatever the earlier pages held.
C12_PageFailureAborts ==
  \A i \in 1..Len(netLog) :
    LET e == netLog[i] IN
    (e.ev = "response" /\ e.op = "fetchPublications"
       /\ (StatusRejected(e.failure) \/ PageMalformed(e.failure))) =>
      /\ i = Len(netLog)
      /\ inflight = 0
      /\ fpc = "threw" \/ (pc = "done" /\ result = "returned")
      /\ IF StatusRejected(e.failure)
         THEN error.name = "AppliveryAPIError" /\ error.statusCode = e.failure.status
         ELSE error.name = "AppliveryParseError"
      /\ IF netLog[i - 1].query = BranchQuery
         THEN branchPublications = <<>>
         ELSE slugPublication = <<>>
      /\ publication = <<>>
      /\ createCalls = <<>>
      /\ NoneEmitted

\* the status of the build response before entry i of the log
LookupSource(i) ==
  LET before == SelectSeq(SubSeq(netLog, 1, i - 1), LAMBDA e :
                  e.ev = "response" /\ e.op \in {"uploadBuild", "getBuild"})
  IN before[Len(before)].status

ClientOps == {"fetchPublications", "createPublication", "uploadBuild", "getBuild"}
\* the transport raised: with a response, with a request only, or otherwise
TransportFailed(f) == f.kind \in {"axiosResponse", "axiosRequest", "axiosOther", "thrown"}

\* C13: in each of the four client functions a transport error holding a
\* response gives an API failure with that response's status, one holding a
\* request only gives a network failure, any other thrown value gives a
\* network failure wrapping it; the failure reaches run() and ends it, and
\* the call is never taken for a success.
C13_FailureClasses ==
  \A i \in 1..Len(netLog) :
    LET e == netLog[i] IN
    (e.ev = "response" /\ TransportFailed(e.failure)) =>
      /\ e.op \in ClientOps
      /\ ~e.ok
      /\ i = Len(netLog)
      /\ fpc = "threw" \/ (pc = "done" /\ result = "returned")
      /\ ~SuccessReported
      /\ CASE e.failure.kind = "axiosResponse" ->
                /\ error.name = "AppliveryAPIError"
                /\ error.statusCode = e.failure.status
           [] e.failure.kind = "axiosRequest" ->
                error.name = "AppliveryNetworkError"
           [] OTHER ->
                /\ error.name = "AppliveryNetworkError"
                /\ error.originalError = e.failure
      /\ e.op = "createPublication" => publication = <<>>
      /\ e.op = "uploadBuild" => uploadedBuild = <<>>
      /\ e.op = "getBuild" => Field(uploadedBuild, "status") = LookupSource(i)

C13_Witness ==
  /\ pc = "done"
  /\ LastResponseFailed({"getBuild"})
  /\ netLog[Len(netLog)].failure.kind = "thrown"
  /\ Len(Responses("createPublication")) = 1
  /\ error.name = "AppliveryNetworkError"

\* C14: a response of uploadBuild or getBuild with status 200 or 201 and no
\* data payload raises a parse failure, and no build record is returned to
\* the run.
C14_BuildParseFailure ==
  \A i \in 1..Len(netLog) :
    LET e == netLog[i] IN
    (e.ev = "response" /\ e.op \in {"uploadBuild", "getBuild"}
       /\ e.failure = NoFailure /\ ~e.hasData) =>
      /\ error.name = "AppliveryParseError"
      /\ i = Len(netLog)
      /\ e.op = "uploadBuild" => uploadedBuild = <<>>

\* the date a timestamp text of the remote stands for
ParsedTimestamp(v) == IF v.t = "string" /\ v.v # "" THEN NewDate(v.v) ELSE v

\* C15: a call of createPublication sends one request, whatever the outcome;
\* an answer with status 200 or 201 and a data object returns that record
\* with its timestamps parsed, any other status raises an API failure with
\* the status and the body, and a 200/201 answer without the data wrapper
\* raises a parse failure.
C15_CreateOutcomes ==
  /\ Len(Requests("createPublication")) = Len(createCalls)
  /\ Len(Responses("createPublication")) <= Len(Requests("createPublication"))
  /\ Len(Requests("createPublication")) <= 1
  /\ \A i \in 1..Len(netLog) :
       LET e == netLog[i] IN
       (e.ev = "response" /\ e.op = "createPublication") =>
         /\ netLog[i - 1].ev = "request" /\ netLog[i - 1].op = "createPublication"
         /\ CASE e.failure = NoFailure ->
                   /\ e.ok
                   /\ error = NoError \/ i < Len(netLog)
                   /\ Len(publication) = 1
                   /\ publication[1].id = e.data.id
                   /\ publication[1].slug = e.data.slug
                   /\ publication[1].distributionUrl = e.data.distributionUrl
                   /\ publication[1].filter = e.data.filter
                   /\ publication[1].createdAt = ParsedTimestamp(e.data.createdAt)
                   /\ publication[1].updatedAt = ParsedTimestamp(e.data.updatedAt)
              [] StatusRejected(e.failure) ->
                   /\ error.name = "AppliveryAPIError"
                   /\ error.statusCode = e.failure.status
                   /\ error.responseBody = JSONStringify(e.failure.body)
                   /\ publication = <<>>
              [] e.failure.kind = "resolved" /\ e.failure.status \in {200, 201} ->
                   /\ ~e.failure.body.hasData
                   /\ error.name = "AppliveryParseError"
                   /\ publication = <<>>
              [] OTHER -> TransportFailed(e.failure) /\ publication = <<>>

\* the first-page requests of the search with query q
SearchStarts(q) ==
  SelectSeq(Requests("fetchPublications"), LAMBDA e : e.query = q /\ e.page = 1)

\* C16: run() starts the search by branch, the search by slug, the create and
\* the upload at most once each, and a call that failed (a search page, the
\* create, the upload or a status lookup) is the last thing on the network:
\* no request follows it.
C16_NoRetry ==
  /\ Len(SearchStarts(BranchQuery)) <= 1
  /\ Len(SearchStarts(SlugQuery)) <= 1
  /\ Len(Requests("createPublication")) <= 1
  /\ Len(Requests("uploadBuild")) <= 1
  /\ \A i \in 1..Len(netLog) :
       (netLog[i].ev = "response" /\ ~netLog[i].ok) =>
         /\ i = Len(netLog)
         /\ inflight = 0
         /\ pc \in {"searchBranchWait", "searchSlugWait", "done"}
         /\ pc # "done" => fpc = "threw"

C16_Witness ==
  /\ pc = "done"
  /\ LastResponseFailed({"uploadBuild"})
  /\ Len(SearchStarts(BranchQuery)) = 1
  /\ Len(SearchStarts(SlugQuery)) = 1
  /\ Len(Requests("fetchPublications")) = 4
  /\ Len(Requests("createPublication")) = 1
  /\ Len(NetworkRequests) = 6

Slept == \E i \in 1..Len(netLog) : netLog[i].ev = "sleep"

\* C17: with skip-processing requested, whatever the max-attempts input and
\* whatever status the upload response carries, the run makes no status
\* lookup, waits for none, raises no processing timeout, and goes from the
\* upload response to the success notice.
C17_SkipProcessing ==
  skipProcessing = "true" =>
    /\ Requests("getBuild") = <<>>
    /\ ~Slept
    /\ ~TimeoutRaised
    /\ ~LastResponseFailed({"uploadBuild"})
    /\ netLog[Len(netLog)].ev = "response" /\ netLog[Len(netLog)].op = "uploadBuild"
    /\ pc \in {"report", "done"}
    /\ pc = "done" => (SuccessReported /\ error = NoError /\ result = "returned")

C17_Witness ==
  /\ skipProcessing = "true"
  /\ pc = "done"
  /\ maxAttemptsInput = 0
  /\ UploadResponses[1].status = "processing"
  /\ SuccessReported

\* C18: in the result of transformDates a listed field that held a non-empty
\* string holds the date parsed from it, a listed field that held null or
\* undefined holds the same, and a field not listed holds what it held;
\* transformDatesArray returns the results of its elements one by one, as
\* many and in the same order.
C18_TransformDates ==
  /\ Len(tdResult) <= Len(tdItems)
  /\ tdpc = "returned" => Len(tdResult) = Len(tdItems)
  /\ \A k \in 1..Len(tdResult) :
       LET given == tdBefore[tdItems[k]]
           made == heap[tdResult[k]]
       IN /\ DOMAIN given \subseteq DOMAIN made
          /\ \A f \in DOMAIN given :
               IF f \in tdFields
               THEN /\ (given[f].t = "string" /\ given[f].v # "") =>
                         /\ made[f].t \in {"date", "invalidDate"}
                         /\ made[f] = NewDate(given[f].v)
                    /\ given[f].t \in {"null", "undefined"} => made[f] = given[f]
               ELSE made[f] = given[f]

C18_Witness ==
  /\ tdpc = "returned"
  /\ Len(tdItems) = 2
  /\ tdFields = {"createdAt", "updatedAt"}
  /\ tdBefore[tdItems[1]].createdAt = Str("2024-01-01T00:00:00Z")
  /\ heap[tdResult[1]].createdAt = DateAt(1)
  /\ heap[tdResult[1]].name = Str("app")
  /\ tdBefore[tdItems[2]].createdAt = Null
  /\ "updatedAt" \notin DOMAIN tdBefore[tdItems[2]]
  /\ heap[tdResult[2]].createdAt = Null

\* C19: transformDates and transformDatesArray leave their input as it was:
\* every object given holds the field values it held before the call, a
\* listed field its original string.
C19_InputUnchanged ==
  /\ Len(heap) >= Len(tdBefore)
  /\ \A ref \in 1..Len(tdBefore) : heap[ref] = tdBefore[ref]

C19_Witness ==
  /\ tdpc = "returned"
  /\ tdItems = <<1, 1>>
  /\ "createdAt" \in tdFields
  /\ heap[1].createdAt = Str("2024-01-01T00:00:00Z")
  /\ heap[tdResult[1]].createdAt = DateAt(1)
  /\ heap[tdResult[2]].createdAt = DateAt(1)
  /\ tdResult[1] # tdResult[2]

\* the stored publications with the filter of the runs' branch, the runs that
\* ended with a publication they created, the runs whose create the remote
\* has stored, and what the remote held at first
BranchMatches ==
  SelectSeq(remote, LAMBDA p : p.filter = [type |-> "gitBranch", value |-> branchName])
Creators == {r \in RunIds : runs[r].pc = "resolved" /\ runs[r].createCalls # <<>>}
CreateStored(run) ==
  /\ run.createCalls # <<>>
  /\ \/ run.pc = "resolved"
     \/ run.pc = "createWait" /\ run.answer.kind = "resolved" /\ run.answer.status = 201
StoredAtFirst(p) == \A n \in 1..Len(NewIds) : p.id # NewIds[n]

\* C20: nothing keeps two runs for one branch from both creating: a run that
\* received both of its searches empty calls create whatever the remote has
\* stored since it answered them, every create the remote accepts adds a
\* publication with the filter {gitBranch, branch}, and two runs that both
\* created hold two different publications with that same filter value.
C20_ConcurrentCreates ==
  /\ \A r \in RunIds :
       LET bothEmpty == runs[r].branchPublications = <<>> /\ runs[r].slugPublication = <<>>
       IN /\ runs[r].createCalls # <<>> => bothEmpty
          /\ runs[r].pc \in {"createWait", "resolved"} =>
               (runs[r].createCalls # <<>> <=> bothEmpty)
          /\ (runs[r].pc = "done" /\ runs[r].createCalls = <<>>) =>
               runs[r].error # NoError
  /\ \A r \in Creators :
       \E i \in 1..Len(BranchMatches) : BranchMatches[i].id = runs[r].publication[1].id
  /\ \A r1, r2 \in Creators :
       r1 # r2 => runs[r1].publication[1].id # runs[r2].publication[1].id
  /\ Len(SelectSeq(BranchMatches, LAMBDA p : ~StoredAtFirst(p)))
       = Cardinality({r \in RunIds : CreateStored(runs[r])})

C20_Witness ==
  /\ Creators = RunIds
  /\ Len(BranchMatches) = 2
  /\ BranchMatches[1].id # BranchMatches[2].id
  /\ BranchMatches[1].filter.value = BranchMatches[2].filter.value
  /\ \A r \in RunIds :
       runs[r].branchPublications = <<>> /\ runs[r].slugPublication = <<>>

\* the runs of a sequence that called create, those whose create the remote
\* stored, and what a run reports of its publication
SeqCallers == {k \in 1..Len(runs) : runs[k].createCalls # <<>>}
SeqCreators == {k \in SeqCallers : CreateStored(runs[k])}
SeqNoFailure == \A k \in 1..Len(runs) : runs[k].error = NoError
Reported(k) == SetOutputs(runs[k].publication[1])

\* C21: of runs for one branch made one after another on a remote that
\* stores every publication created and returns it from searches, at most
\* one has its create stored, and when no request fails at most one calls
\* create at all; every run after the one that created creates nothing
\* and, when its searches succeed, finds that publication and reports it.
C21_SequentialIdempotence ==
  /\ Cardinality(SeqCreators) <= 1
  /\ SeqNoFailure => Cardinality(SeqCallers) <= 1
  /\ \A k \in SeqCreators :
       \A j \in (k + 1)..Len(runs) :
         /\ runs[j].createCalls = <<>>
         /\ runs[j].error = NoError => runs[j].pc # "done"
         /\ runs[j].pc = "resolved" => Reported(j) = Reported(k)

C21_Witness ==
  /\ Len(runs) = 3
  /\ SeqCreators = {1}
  /\ runs[2].pc = "resolved"
  /\ runs[3].pc = "resolved"
  /\ runs[2].publication[1].id = runs[1].publication[1].id
  /\ runs[3].publication[1].id = runs[1].publication[1].id
  /\ slugName # branchName

MismatchWarned ==
  \E i \in 1..Len(diag) :
    /\ diag[i].level = "warning"
    /\ diag[i].text = "Slug publication found doesn't match up with existing Branch publication found"
FirstIdsDiffer ==
  /\ branchPublications # <<>>
  /\ slugPublication # <<>>
  /\ branchPublications[1].id # slugPublication[1].id

\* C22: the mismatch warning is logged exactly when both lists are non-empty
\* and their first identifiers differ; then nothing fails at that point, the
\* first branch match is the publication reported, nothing is created and
\* the run goes on to the upload.
C22_MismatchWarning ==
  /\ ~Reconciled => ~MismatchWarned
  /\ Reconciled => (MismatchWarned <=> FirstIdsDiffer)
  /\ (Reconciled /\ FirstIdsDiffer) =>
       /\ publication = <<branchPublications[1]>>
       /\ OutputValue("publication-id") = branchPublications[1].id
       /\ OutputValue("publication-slug") = branchPublications[1].slug
       /\ OutputValue("publication-distribution-url") = branchPublications[1].distributionUrl
       /\ createCalls = <<>>
       /\ ~failed
       /\ pc = "upload" => (error = NoError /\ result = "running")
       /\ pc # "upload" => Len(Requests("uploadBuild")) = 1

C22_Witness ==
  /\ pc = "done"
  /\ MismatchWarned
  /\ branchPublications[1].id = "A"
  /\ slugPublication[1].id = "B"
  /\ OutputValue("publication-id") = "A"
  /\ SuccessReported

ErrorLines == SelectSeq(diag, LAMBDA l : l.level = "error")
\* the words by which an error line names the kind of a failure
KindNamed(err) ==
  CASE err.name = "AppliveryAPIError" -> "Applivery API Error"
    [] err.name = "AppliveryNetworkError" -> "Applivery Network Error"
    [] err.name = "AppliveryParseError" -> "Applivery Parse Error"
    [] OTHER -> "Build did not complete processing"

\* C23: a failure escalated in run() leaves exactly one error line in the
\* log, and the line names the kind of the failure: API, network, parse or
\* processing timeout.
C23_OneErrorLine ==
  Escalated =>
    /\ Len(ErrorLines) = 1
    /\ ErrorLines[1].text = KindNamed(error)

\* the requests and responses of the log, without the waits
Traffic == SelectSeq(netLog, LAMBDA e : e.ev \in {"request", "response"})
\* the place of a request in the order of a run
Phase(e) ==
  CASE e.op = "fetchPublications" -> (IF e.query = BranchQuery THEN 1 ELSE 2)
    [] e.op = "createPublication" -> 3
    [] e.op = "uploadBuild" -> 4
    [] OTHER -> 5

\* C24: a run whose searches, and create when needed, succeeded sends one
\* upload request, for a publication found as for one created, and no run
\* sends more; the requests of a run go out one at a time, each after the
\* response to the one before, in the order search by branch, search by
\* slug, create, upload, status lookups.
C24_SequentialRequests ==
  /\ inflight \in {0, 1}
  /\ inflight = Len(NetworkRequests) - (Len(Traffic) - Len(NetworkRequests))
  /\ \A i \in 1..Len(Traffic) :
       /\ Traffic[i].ev = (IF i % 2 = 1 THEN "request" ELSE "response")
       /\ i % 2 = 0 => Traffic[i].op = Traffic[i - 1].op
  /\ \A i, j \in 1..Len(NetworkRequests) :
       i < j => Phase(NetworkRequests[i]) <= Phase(NetworkRequests[j])
  /\ NetworkRequests # <<>> =>
       (Phase(NetworkRequests[1]) = 1 /\ NetworkRequests[1].page = 1)
  /\ Len(Requests("uploadBuild")) = (IF publication # <<>> /\ pc # "upload" THEN 1 ELSE 0)
  /\ Requests("uploadBuild") # <<>> =>
       /\ Len(SearchStarts(BranchQuery)) = 1
       /\ Len(SearchStarts(SlugQuery)) = 1

C24_Witness ==
  /\ pc = "done"
  /\ SuccessReported
  /\ Len(Requests("createPublication")) = 1
  /\ Len(Requests("uploadBuild")) = 1
  /\ Len(Requests("getBuild")) = 2
  /\ Len(Requests("fetchPublications")) = 2

\* the parts of C25 other than the identifier used
LookupsWaitedAndBounded ==
  /\ Requests("getBuild") # <<>> => UploadSucceeded
  /\ \A i \in 1..Len(netLog) :
       (netLog[i].ev = "request" /\ netLog[i].op = "getBuild") =>
         /\ i > 2
         /\ netLog[i - 1].ev = "sleep"
         /\ netLog[i - 1].seconds = waitTime
         /\ netLog[i - 2].ev = "response"
  /\ \A i \in 1..Len(netLog) :
       netLog[i].ev = "sleep" =>
         (pc = "pollSleep" /\ i = Len(netLog))
           \/ (i < Len(netLog) /\ netLog[i + 1].ev = "request" /\ netLog[i + 1].op = "getBuild")
  /\ maxAttempts >= 0 => Len(Requests("getBuild")) <= maxAttempts
  /\ Len(Requests("getBuild")) <= MaxMaxAttempts
  /\ attempts = Len(SelectSeq(LookupResponses, LAMBDA e : e.ok))

\* C25: status lookups are made only after an upload that succeeded and ask
\* for the identifier that upload returned; each follows one wait of the
\* configured duration; and there are at most maxAttempts of them (for
\* maxAttempts >= 0), so the loop ends once each lookup has returned.
C25_BoundedLookups ==
  /\ LookupsWaitedAndBounded
  /\ \A i \in 1..Len(Requests("getBuild")) :
       Requests("getBuild")[i].id = UploadResponses[1].id

\* every character of s is a letter, a digit or a hyphen
OnlySlugCharacters(s) == \A i \in 1..Len(s) : IsAlnum(s[i]) \/ s[i] = "-"
FilterQueries ==
  SelectSeq(Requests("fetchPublications"), LAMBDA e : "filterValue" \in DOMAIN e.query)

\* C26: the search by branch and the creation payload carry the branch name
\* as given in their filter value, while the slug used when none is given
\* is the sanitized name; for a branch name with a character outside
\* letters, digits and hyphen the two differ.
C26_RawFilterValue ==
  /\ \A i \in 1..Len(FilterQueries) :
       /\ FilterQueries[i].query.filterType = "gitBranch"
       /\ FilterQueries[i].query.filterValue = branchName
  /\ \A i \in 1..Len(Requests("fetchPublications")) :
       LET q == Requests("fetchPublications")[i].query
       IN "slug" \in DOMAIN q => q.slug = slugName
  /\ \A i \in 1..Len(createCalls) :
       /\ createCalls[i].filter.value = branchName
       /\ createCalls[i].filter.type = "gitBranch"
       /\ slugInput = <<>> =>
            /\ createCalls[i].slug = slugSafeBranchName(branchName)
            /\ OnlySlugCharacters(createCalls[i].slug)
            /\ ~OnlySlugCharacters(branchName) =>
                 createCalls[i].slug # createCalls[i].filter.value

C26_Witness ==
  /\ Len(createCalls) = 1
  /\ slugInput = <<>>
  /\ branchName = <<"f", "/", "x">>
  /\ createCalls[1].slug = <<"f", "-", "x">>
  /\ createCalls[1].filter.value = <<"f", "/", "x">>
  /\ FilterQueries[1].query.filterValue = <<"f", "/", "x">>

\* C27: the payload given to create has security "password" exactly when a
\* non-empty publication password was supplied and "public" otherwise,
\* visibility "unlisted", the slug-name input as its slug when one is given
\* and the sanitized branch name otherwise, and showDevInfo and showHistory
\* true.
C27_DefaultPayload ==
  \A i \in 1..Len(createCalls) :
    LET payload == createCalls[i] IN
    /\ payload.security = (IF publicationPassword # "" THEN "password" ELSE "public")
    /\ payload.visibility = "unlisted"
    /\ payload.slug = (IF slugInput # <<>> THEN slugInput
                       ELSE slugSafeBranchName(branchName))
    /\ payload.showDevInfo = TRUE
    /\ payload.showHistory = TRUE
    /\ Requests("createPublication")[i].payload = payload

C27_Witness ==
  /\ Len(createCalls) = 1
  /\ publicationPassword = "secret"
  /\ createCalls[1].security = "password"
  /\ slugInput = SlugApp
  /\ createCalls[1].slug = SlugApp
  /\ branchName = BranchOdd

\* the paths of the optional fields of an upload payload
OptionalPaths ==
  {<<"tags">>, <<"changelog">>, <<"notifyCollaborators">>, <<"notifyEmployees">>,
   <<"notifyMessage">>, <<"notifyLanguage">>, <<"deployer", "name">>}
    \cup {<<"deployer", "info", f>> : f \in InfoFieldSet}

\* the field at the path is present in the object, whatever its value
RECURSIVE Present(_, _)
Present(obj, path) ==
  /\ path[1] \in DOMAIN obj
  /\ Len(path) = 1 \/ Present(obj[path[1]], Tail(path))

\* the posted body has a part for the path
Sent(path) == \E i \in 1..Len(formData) : formData[i].name = path

\* C28: the body uploadBuild posts has a part for an optional field exactly
\* when the field is present in the payload, empty or false values included.
C28_SentWhenPresent ==
  formpc = "posted" =>
    \A path \in OptionalPaths : Sent(path) <=> Present(formPayload, path)

\* the status of the build as run() last observed it
LastStatus == Field(uploadedBuild, "status")

\* C29: without skip-processing, a run that reaches the success notice with
\* no failure raised has last observed the status processed, whatever the
\* integer max-attempts is, zero and negative values included.
C29_SuccessSound ==
  (skipProcessing = "false" /\ SuccessReported /\ error = NoError) =>
    LastStatus = "processed"

\* C30: without skip-processing and with max-attempts >= 0, a run whose
\* upload response already reports processed makes no status lookup and
\* raises no processing timeout; and a processing timeout is raised only
\* when the status last observed is not processed.
C30_NoTimeoutWhenProcessed ==
  /\ (skipProcessing = "false" /\ maxAttempts >= 0 /\ UploadSucceeded
        /\ UploadResponses[1].status = "processed") =>
       /\ Requests("getBuild") = <<>>
       /\ ~TimeoutRaised
  /\ (skipProcessing = "false" /\ TimeoutRaised) => LastStatus # "processed"

\* the total a page response reports is at most P; a total missing is none
ReportsAtMost(body, P) == body.totalPages.t = "number" => body.totalPages.n <= P
\* the total a page response reports is more than k
ReportsMoreThan(body, k) == body.totalPages.t = "number" /\ body.totalPages.n > k
\* the total a page response reports is 0 or missing
ReportsNone(body) == body.totalPages \in {Undefined, Num(0)}
PageRequests == Requests("fetchPublications")
NoPageFailed == \A i \in 1..Len(Responses("fetchPublications")) :
                  Responses("fetchPublications")[i].ok

\* C31: when every page response reports a totalPages of at most P the
\* search makes at most P requests and has ended once P pages are received,
\* the total being read again from each response; a first response whose
\* totalPages is 0 or missing ends the search after that one request, the
\* total taken as 1; and while every response reports a totalPages above the
\* index of the page after it and none fails, the search has not ended: it
\* is asking, or about to ask, for the next page.
C31_PagingTermination ==
  /\ \A P \in 1..MaxPagingRequests :
       (\A i \in 1..Len(pagesSeen) : ReportsAtMost(pagesSeen[i], P)) =>
         /\ Len(PageRequests) <= P
         /\ Len(pagesSeen) = P => fpc = "returned"
  /\ \A i \in 1..Len(pagesSeen) :
       ReportsNone(pagesSeen[i]) =>
         /\ Len(pagesSeen) = i
         /\ Len(PageRequests) = i
         /\ fpc = "returned"
         /\ totalPages = 1
  /\ (NoPageFailed /\ \A i \in 1..Len(pagesSeen) : ReportsMoreThan(pagesSeen[i], i + 1)) =>
       /\ fpc \in {"send", "wait"}
       /\ currentPage = Len(pagesSeen) + 1
       /\ Len(PageRequests) = (IF fpc = "wait" THEN currentPage ELSE currentPage - 1)

\* the total differs from response to response, never above 3, and the third
\* request is the last
C31_Witness ==
  /\ fpc = "returned"
  /\ Len(pagesSeen) = 3
  /\ pagesSeen[1].totalPages = Num(2)
  /\ pagesSeen[2].totalPages = Num(3)
  /\ pagesSeen[3].totalPages = Num(1)
  /\ Len(PageRequests) = 3

====
